---- MODULE Spec2Model ----
(***************************************************************************)
(* RTSP fan-out server: the stream registry (StreamManager), the per-stream *)
(* ingestor (runFFmpegStream / startFFmpeg), broadcaster (distributeFrames) *)
(* and health monitor (monitorStreamHealth), the per-client readPump and    *)
(* writePump, and the HTTP handlers that drive them.                        *)
(*                                                                         *)
(* Objects are numbered in allocation order: Stream objects 1..nStreams,    *)
(* contexts (one per runFFmpegStream goroutine) 1..nCtx, Client objects     *)
(* 1..clientIDGen.  A goroutine's position is a pc variable.  Each action   *)
(* is the code between two points at which another goroutine can observe    *)
(* or change the shared state the action touches.  sm.mu is a variable      *)
(* because StopStream and RemoveClient hold it across several such points;  *)
(* stream.mu, stream.clientsMu and client.mu only ever guard code that is   *)
(* one action here.                                                         *)
(***************************************************************************)
EXTENDS Integers, Sequences, FiniteSets, TLC

\* ---------------------------------------------------------------- bounds
\* Objects that can be allocated in one run, frames that can be read from
\* the children of one stream, and the last clock value.
MaxStreams == 1
MaxCtx == 2
MaxClients == 2
MaxFrames == 2
MaxTime == 20
\* What a run has of a resource that its scenario does not widen.
Few == 1
MaxUrlStreams == 2
\* The clock advances in steps of this many seconds.
ClockStep == 15

\* ------------------------------------------------------ program constants
FrameBufferSize == 100
ClientBufferSize == 10
HealthCheckInterval == 5
MaxStallDuration == 10

StreamIds == {"cam1"}
\* URLs given to start-with-url, the requests of it that can be in flight
\* together, and the ids it derives.
Urls == {"rtsp://x", "rtsp://y"}
UrlReqs == 1..2

\* fmt.Sprintf("stream_%x", md5(url))[:16]: "stream_" and the first nine
\* hexadecimal digits of the MD5 digest of the URL.
StreamIDOf(u) ==
  CASE u = "rtsp://x" -> "stream_be308c8f8"
    [] u = "rtsp://y" -> "stream_0a22f1f54"

UrlIds == {StreamIDOf(u) : u \in Urls}

\* The bodies handleStartStreamWithURL answers with: the message and the
\* stream_id of its two 200 answers, the error of its 500 answer.
NoAnswer == [msg |-> "none", id |-> "none"]
AlreadyRunning(id) == [msg |-> "Stream already running", id |-> id]
Started(id) == [msg |-> "Stream started successfully", id |-> id]
Failed == [msg |-> "error", id |-> "none"]
Ids == StreamIds \cup UrlIds
StreamObjs == 1..3
Ctxs == 1..4
ClientObjs == 1..3

VARIABLES
  \* StreamManager
  streams,        \* sm.streams: stream id -> Stream object (0: no entry)
  smClients,      \* sm.clients: stream id -> set of Client objects (the mirror)
  clientIDGen,    \* sm.clientIDGen
  smMu,           \* sm.mu: "free" or the write-locked operation holding it
  nStreams,       \* Stream objects allocated so far
  nCtx,           \* contexts allocated so far
  \* Stream
  streamID,       \* stream.streamID
  frameBuffer,    \* stream.frameBuffer: queued frames
  fbClosed,       \* stream.frameBuffer has been closed
  clients,        \* stream.clients
  isRunning,      \* stream.isRunning
  cancelFunc,     \* stream.cancelFunc: the context it cancels
  lastFrameTime,  \* stream.lastFrameTime (0: the zero time.Time)
  frameCount,     \* stream.frameCount
  healthStopChan, \* stream.healthStopChan has been closed
  enqueued,       \* frames sent into stream.frameBuffer so far; a frame is
                  \* identified by its rank in this order
  \* a context and the runFFmpegStream goroutine bound to it
  ctxStream,      \* the Stream the goroutine was launched for
  ctxDone,        \* ctx.Done() is closed
  ingPc,          \* position of the goroutine
  procAlive,      \* the ffmpeg child of the goroutine's current cmd is alive
  \* distributeFrames goroutine of a Stream
  bcPc,           \* its position
  bcFrame,        \* the frame last received from stream.frameBuffer
  bcTodo,         \* clients of its snapshot not yet served with bcFrame
  \* monitorStreamHealth goroutine of a Stream
  hmPc,
  \* Client
  cStream,        \* the Stream object the client was attached to
  closed,         \* client.closed
  send,           \* client.send: queued frames
  sendClosed,     \* client.send has been closed
  connClosed,     \* client.conn has been closed
  rpPc,           \* readPump position
  wpPc,           \* writePump position
  lastWritten,    \* the last frame writePump wrote to the transport
  joinEnq,        \* stream's enqueued count when AddClient attached the client
  joinSnap,       \* last frame the broadcaster had snapshotted for, at attach
  \* StopStream in progress
  stopPc, stopObj, stopCaller, stopTodo,
  \* handlers between their check and their call
  wsPending,      \* handleWebSocket passed its checks for this stream id
  safePending,    \* handleStopStream saw zero clients for this stream id
  pullPending,    \* handleGetFrame in flight: its position and the Stream
                  \* object it found in sm.streams
  pulled,         \* the frames handleGetFrame has returned, per Stream
  received,       \* the frames distributeFrames has received, per Stream
  urlPending,     \* per request of handleStartStreamWithURL: the URL whose
                  \* id it found absent from sm.streams
  urlAnswer,      \* per request slot: the body of the last answer of
                  \* handleStartStreamWithURL (message and stream_id)
  mainPc,         \* main: "serve", or its position after the signal
  lk,             \* the mutexes: per operation its position in its
                  \* sequence of lock calls, per mutex its holders and
                  \* the writers waiting for it
  now,            \* wall clock (seconds)
  panic,          \* the Go runtime panic that ended the process ("none")
  lim             \* the run's limits: objects, frames, clock

\* The handlers of the pull endpoint and of start-with-url.
urlVars == <<urlPending, urlAnswer>>
apiVars == <<pullPending, pulled, received, urlVars>>
smCore == <<streams, smClients, clientIDGen, smMu, nStreams, nCtx, lim>>
smVars == <<streams, smClients, clientIDGen, smMu, nStreams, nCtx, lim,
            apiVars>>
streamVars == <<streamID, frameBuffer, fbClosed, clients, isRunning, cancelFunc,
                lastFrameTime, frameCount, healthStopChan, enqueued>>
ingVars == <<ctxStream, ctxDone, ingPc, procAlive>>
bcVars == <<bcPc, bcFrame, bcTodo>>
clientVars == <<cStream, closed, send, sendClosed, connClosed, rpPc, wpPc,
                lastWritten, joinEnq, joinSnap>>
stopVars == <<stopPc, stopObj, stopCaller, stopTodo>>
reqVars == <<wsPending, safePending, mainPc, lk>>
vars == <<smVars, streamVars, ingVars, bcVars, hmPc, clientVars, stopVars,
          reqVars, now, panic>>

\* What a handler step answers: an HTTP status, 101 for a completed
\* WebSocket attach, or 0 when the handler has not answered yet.
Statuses == {0, 101, 200, 204, 404, 409, 500, 503}

\* The process runs until a goroutine panics or main returns.
Up == panic = "none" /\ mainPc # "exited"

Limits(nS, nK, nC, nF, tMax) ==
  [streams |-> nS, ctx |-> nK, clients |-> nC, frames |-> nF, time |-> tMax]

\* ----------------------------------------------------------------- Locks
\* The four mutexes of the program: the registry's sm.mu, a stream's mu and
\* clientsMu, and a client's mu.
Locks == {"sm.mu", "stream.mu", "stream.clientsMu", "client.mu"}

\* The operations that take locks, each a thread of its own.  A handler
\* includes the manager method it calls.
Operations ==
  { "StartStream", "startFFmpeg", "distributeFrames", "StopStream",
    "handleStartStreamWithURL", "handleStopStream", "handleWebSocket",
    "GetStreamStats", "handleListStreams", "handleGetFrame",
    "monitorStreamHealth", "readPump", "writePump" }

\* No operation runs, no mutex is held, no writer waits.
NoLocks ==
  [ pc   |-> [o \in Operations |-> 0],
    held |-> [l \in Locks |-> {}],
    wait |-> [l \in Locks |-> {}] ]

\* ------------------------------------------------------------------ Init
\* NewStreamManager: empty maps; no Stream, context or Client exists yet.
InitCore ==
  /\ streams = [i \in Ids |-> 0]
  /\ smClients = [i \in Ids |-> {}]
  /\ clientIDGen = 0
  /\ smMu = "free"
  /\ nStreams = 0
  /\ nCtx = 0
  /\ streamID = [s \in StreamObjs |-> "none"]
  /\ frameBuffer = [s \in StreamObjs |-> <<>>]
  /\ fbClosed = [s \in StreamObjs |-> FALSE]
  /\ clients = [s \in StreamObjs |-> {}]
  /\ isRunning = [s \in StreamObjs |-> FALSE]
  /\ cancelFunc = [s \in StreamObjs |-> 0]
  /\ lastFrameTime = [s \in StreamObjs |-> 0]
  /\ frameCount = [s \in StreamObjs |-> 0]
  /\ healthStopChan = [s \in StreamObjs |-> FALSE]
  /\ enqueued = [s \in StreamObjs |-> 0]
  /\ ctxStream = [k \in Ctxs |-> 0]
  /\ ctxDone = [k \in Ctxs |-> FALSE]
  /\ ingPc = [k \in Ctxs |-> "none"]
  /\ procAlive = [k \in Ctxs |-> FALSE]
  /\ bcPc = [s \in StreamObjs |-> "none"]
  /\ bcFrame = [s \in StreamObjs |-> 0]
  /\ bcTodo = [s \in StreamObjs |-> {}]
  /\ hmPc = [s \in StreamObjs |-> "none"]
  /\ cStream = [c \in ClientObjs |-> 0]
  /\ closed = [c \in ClientObjs |-> FALSE]
  /\ send = [c \in ClientObjs |-> <<>>]
  /\ sendClosed = [c \in ClientObjs |-> FALSE]
  /\ connClosed = [c \in ClientObjs |-> FALSE]
  /\ rpPc = [c \in ClientObjs |-> "none"]
  /\ wpPc = [c \in ClientObjs |-> "none"]
  /\ lastWritten = [c \in ClientObjs |-> 0]
  /\ joinEnq = [c \in ClientObjs |-> 0]
  /\ joinSnap = [c \in ClientObjs |-> 0]
  /\ stopPc = "idle"
  /\ stopObj = 0
  /\ stopCaller = "none"
  /\ stopTodo = {}
  /\ wsPending = "none"
  /\ safePending = "none"
  /\ mainPc = "serve"
  /\ pullPending = [pc |-> "idle", obj |-> 0]
  /\ pulled = [s \in StreamObjs |-> <<>>]
  /\ received = [s \in StreamObjs |-> <<>>]
  /\ urlPending = [q \in UrlReqs |-> "none"]
  /\ urlAnswer = [q \in UrlReqs |-> NoAnswer]
  /\ now = HealthCheckInterval
  /\ panic = "none"

\* The state after construction, with no operation inside a lock call.
InitState ==
  /\ InitCore
  /\ lk = NoLocks

\* A run is one of three scenarios.  Each widens one resource: contexts and
\* clock time (the monitor can restart the ingestor after a stall), frames
\* (several frames travel through the pipe and a client's queue), or clients
\* (the broadcaster serves several clients).
Scenarios ==
  { Limits(MaxStreams, MaxCtx, Few, Few, MaxTime),
    Limits(MaxStreams, MaxStreams, Few, MaxFrames, HealthCheckInterval),
    Limits(MaxStreams, MaxStreams, MaxClients, Few, HealthCheckInterval) }

Init ==
  /\ InitState
  /\ lim \in Scenarios

\* ------------------------------------------------------------ StartStream
\* handleStartStream calling StartStream, which runs under sm.mu: an existing
\* id is an error (answered 500) and nothing changes; otherwise a Stream and
\* its context are built and published, the three goroutines are launched,
\* and the answer is 200.
\* A create that empties sm.clients[streamID] before it looks for the id.
StartStreamExistsResetsMirror(id, r) ==
  /\ r = 500
  /\ smClients' = [smClients EXCEPT ![id] = {}]
  /\ UNCHANGED <<streams, clientIDGen, smMu, nStreams, nCtx, lim, streamVars,
                 ingVars, bcVars, hmPc, clientVars, stopVars, wsPending,
                 safePending, mainPc, lk, now, panic>>

\* The id is already in sm.streams: the error return, answered 500.
StartStreamExists(id, r) ==
  /\ r = 500
  /\ UNCHANGED <<smCore, streamVars, ingVars, bcVars, hmPc, clientVars,
                 stopVars, wsPending, safePending, mainPc, lk, now, panic>>

\* sm.StartStream, as called by a handler that answers r.
StartStreamCall(id, r) ==
  /\ Up
  /\ smMu = "free"
  /\ IF streams[id] # 0
     THEN StartStreamExists(id, r)
     ELSE /\ nStreams < lim.streams
          /\ nCtx < lim.ctx
          /\ LET s == nStreams + 1
                 k == nCtx + 1
             IN /\ nStreams' = s
                /\ nCtx' = k
                /\ streamID' = [streamID EXCEPT ![s] = id]
                /\ cancelFunc' = [cancelFunc EXCEPT ![s] = k]
                /\ streams' = [streams EXCEPT ![id] = s]
                /\ smClients' = [smClients EXCEPT ![id] = {}]
                /\ ctxStream' = [ctxStream EXCEPT ![k] = s]
                /\ ingPc' = [ingPc EXCEPT ![k] = "loop"]
                /\ bcPc' = [bcPc EXCEPT ![s] = "recv"]
                /\ hmPc' = [hmPc EXCEPT ![s] = "wait"]
          /\ r = 200
          /\ UNCHANGED <<clientIDGen, smMu, lim, frameBuffer, fbClosed,
                         clients, isRunning, lastFrameTime, frameCount,
                         healthStopChan, enqueued, ctxDone, procAlive, bcFrame,
                         bcTodo, clientVars, stopVars, wsPending, safePending,
                         mainPc, lk, now, panic>>

\* handleStartStream: the answer is that of sm.StartStream.
StartStream(id, r) ==
  /\ StartStreamCall(id, r)
  /\ UNCHANGED apiVars

\* ------------------------------------------------ handleStartStreamWithURL
\* A handler that calls sm.StartStream without looking for the id first.
UrlCheckBlind(q, u, r) ==
  /\ Up
  /\ urlPending[q] = "none"
  /\ smMu = "free"
  /\ r = 0
  /\ urlPending' = [urlPending EXCEPT ![q] = u]
  /\ UNCHANGED <<smCore, pullPending, pulled, received, urlAnswer, streamVars,
                 ingVars, bcVars, hmPc, clientVars, stopVars, reqVars, now,
                 panic>>

\* Request q, first part: the id is derived from the URL and looked up
\* under sm.mu.RLock; when it is in sm.streams the answer is 200 "Stream
\* already running"; otherwise the lock is released and the handler goes on.
UrlCheck(q, u, r) ==
  /\ Up
  /\ urlPending[q] = "none"
  /\ smMu = "free"
  /\ IF streams[StreamIDOf(u)] # 0
     THEN /\ r = 200
          /\ urlAnswer' =
               [urlAnswer EXCEPT ![q] = AlreadyRunning(StreamIDOf(u))]
          /\ UNCHANGED urlPending
     ELSE /\ r = 0
          /\ urlPending' = [urlPending EXCEPT ![q] = u]
          /\ UNCHANGED urlAnswer
  /\ UNCHANGED <<smCore, pullPending, pulled, received, streamVars, ingVars,
                 bcVars, hmPc, clientVars, stopVars, reqVars, now, panic>>

\* Request q, second part: sm.StartStream(streamID, ...); its error is
\* answered 500, its success 200 "Stream started successfully".
UrlStart(q, r) ==
  /\ urlPending[q] # "none"
  /\ StartStreamCall(StreamIDOf(urlPending[q]), r)
  /\ urlPending' = [urlPending EXCEPT ![q] = "none"]
  /\ urlAnswer' = [urlAnswer EXCEPT ![q] =
       IF r = 200 THEN Started(StreamIDOf(urlPending[q])) ELSE Failed]
  /\ UNCHANGED <<pullPending, pulled, received>>

\* runFFmpegStream with a loop that returns after a failed start.
IngLoopGivesUp(k, ok) ==
  /\ Up
  /\ ingPc[k] = "loop"
  /\ IF ctxDone[k]
     THEN /\ ingPc' = [ingPc EXCEPT ![k] = "done"]
          /\ UNCHANGED <<isRunning, procAlive>>
     ELSE /\ isRunning' = [isRunning EXCEPT ![ctxStream[k]] = TRUE]
          /\ IF ok
             THEN /\ ingPc' = [ingPc EXCEPT ![k] = "read"]
                  /\ procAlive' = [procAlive EXCEPT ![k] = TRUE]
             ELSE /\ ingPc' = [ingPc EXCEPT ![k] = "done"]
                  /\ UNCHANGED procAlive
  /\ UNCHANGED <<smVars, streamID, frameBuffer, fbClosed, clients,
                 cancelFunc, lastFrameTime, frameCount, healthStopChan,
                 enqueued, ctxStream, ctxDone, bcVars, hmPc, clientVars,
                 stopVars, reqVars, now, panic>>

\* ------------------------------------------- runFFmpegStream / startFFmpeg
\* Top of the runFFmpegStream loop (first entry, or after the retry sleep):
\* return when the context is done.  Otherwise startFFmpeg: stream.cmd and
\* isRunning = true are set under stream.mu, then cmd.Start() either spawns
\* the child (ok), after which the goroutine blocks in io.ReadFull, or fails,
\* which returns to the retry sleep with isRunning left as set.
IngLoop(k, ok) ==
  /\ Up
  /\ ingPc[k] = "loop"
  /\ IF ctxDone[k]
     THEN /\ ingPc' = [ingPc EXCEPT ![k] = "done"]
          /\ UNCHANGED <<isRunning, procAlive>>
     ELSE /\ isRunning' = [isRunning EXCEPT ![ctxStream[k]] = TRUE]
          /\ IF ok
             THEN /\ ingPc' = [ingPc EXCEPT ![k] = "read"]
                  /\ procAlive' = [procAlive EXCEPT ![k] = TRUE]
             ELSE UNCHANGED <<ingPc, procAlive>>
  /\ UNCHANGED <<smVars, streamID, frameBuffer, fbClosed, clients,
                 cancelFunc, lastFrameTime, frameCount, healthStopChan,
                 enqueued, ctxStream, ctxDone, bcVars, hmPc, clientVars,
                 stopVars, reqVars, now, panic>>

\* The positions at which a runFFmpegStream goroutine holds a frame it has
\* read and not yet queued.
Holding == {"enq", "drop", "send"}

FramesInHand(s) ==
  Cardinality({k \in Ctxs : ctxStream[k] = s /\ ingPc[k] \in Holding})

\* io.ReadFull returns a whole frame written by the live child.
IngReadFrame(k) ==
  /\ Up
  /\ ingPc[k] = "read"
  /\ procAlive[k]
  /\ enqueued[ctxStream[k]] + FramesInHand(ctxStream[k]) < lim.frames
  /\ ingPc' = [ingPc EXCEPT ![k] = "enq"]
  /\ UNCHANGED <<smVars, streamVars, ctxStream, ctxDone, procAlive, bcVars,
                 hmPc, clientVars, stopVars, reqVars, now, panic>>

\* io.ReadFull returns an error: the child has exited or was killed (EOF or
\* a short read).  startFFmpeg returns it and runFFmpegStream sleeps.
IngReadErr(k) ==
  /\ Up
  /\ ingPc[k] = "read"
  /\ ingPc' = [ingPc EXCEPT ![k] = "loop"]
  /\ procAlive' = [procAlive EXCEPT ![k] = FALSE]
  /\ UNCHANGED <<smVars, streamVars, ctxStream, ctxDone, bcVars, hmPc,
                 clientVars, stopVars, reqVars, now, panic>>

\* exec.CommandContext: the command's watcher kills the child once the
\* context is done, in its own goroutine.
CtxKill(k) ==
  /\ Up
  /\ procAlive[k]
  /\ ctxDone[k]
  /\ procAlive' = [procAlive EXCEPT ![k] = FALSE]
  /\ UNCHANGED <<smVars, streamVars, ctxStream, ctxDone, ingPc, bcVars, hmPc,
                 clientVars, stopVars, reqVars, now, panic>>

\* The first select of the enqueue, a non-blocking send of the frame into
\* stream.frameBuffer: a send on a closed channel panics; with room the
\* frame is queued and then, under stream.mu, lastFrameTime = time.Now()
\* and frameCount++; with the buffer full the default branch is taken.
\* After a queued frame, back at the select of the read loop: when
\* ctx.Done() is closed the child is killed, startFFmpeg returns nil and
\* runFFmpegStream returns; otherwise the goroutine blocks in io.ReadFull
\* again.
IngEnqueue(k) ==
  LET s == ctxStream[k]
      f == enqueued[s] + 1
  IN /\ Up
     /\ ingPc[k] = "enq"
     /\ IF fbClosed[s]
        THEN /\ panic' = "send on closed channel: frameBuffer"
             /\ UNCHANGED <<frameBuffer, enqueued, ingPc, procAlive,
                            lastFrameTime, frameCount>>
        ELSE IF Len(frameBuffer[s]) < FrameBufferSize
        THEN /\ frameBuffer' = [frameBuffer EXCEPT ![s] = Append(@, f)]
             /\ enqueued' = [enqueued EXCEPT ![s] = f]
             /\ lastFrameTime' = [lastFrameTime EXCEPT ![s] = now]
             /\ frameCount' = [frameCount EXCEPT ![s] = @ + 1]
             /\ ingPc' = [ingPc EXCEPT ![k] =
                  IF ctxDone[k] THEN "done" ELSE "read"]
             /\ procAlive' = [procAlive EXCEPT ![k] = @ /\ ~ctxDone[k]]
             /\ UNCHANGED panic
        ELSE /\ ingPc' = [ingPc EXCEPT ![k] = "drop"]
             /\ UNCHANGED <<frameBuffer, enqueued, procAlive, lastFrameTime,
                            frameCount, panic>>
     /\ UNCHANGED <<smVars, streamID, fbClosed, clients, isRunning, cancelFunc,
                    healthStopChan, ctxStream, ctxDone, bcVars, hmPc,
                    clientVars, stopVars, reqVars, now>>

\* All of a queue but its last element.
Front(q) == SubSeq(q, 1, Len(q) - 1)

\* A default branch that discards the frame queued last.
IngDropNewest(k) ==
  LET s == ctxStream[k]
  IN /\ Up
     /\ ingPc[k] = "drop"
     /\ frameBuffer' = [frameBuffer EXCEPT ![s] =
          IF @ = <<>> THEN @ ELSE Front(@)]
     /\ ingPc' = [ingPc EXCEPT ![k] = "send"]
     /\ UNCHANGED <<smVars, streamID, fbClosed, clients, isRunning, cancelFunc,
                    lastFrameTime, frameCount, healthStopChan, enqueued,
                    ctxStream, ctxDone, procAlive, bcVars, hmPc, clientVars,
                    stopVars, reqVars, now, panic>>

\* The default branch, first step: a non-blocking receive takes the oldest
\* queued frame, if there is one, and discards it.
IngDropOldest(k) ==
  LET s == ctxStream[k]
  IN /\ Up
     /\ ingPc[k] = "drop"
     /\ frameBuffer' = [frameBuffer EXCEPT ![s] =
          IF @ = <<>> THEN @ ELSE Tail(@)]
     /\ ingPc' = [ingPc EXCEPT ![k] = "send"]
     /\ UNCHANGED <<smVars, streamID, fbClosed, clients, isRunning, cancelFunc,
                    lastFrameTime, frameCount, healthStopChan, enqueued,
                    ctxStream, ctxDone, procAlive, bcVars, hmPc, clientVars,
                    stopVars, reqVars, now, panic>>

\* A default branch that queues the frame and leaves the counters alone.
IngSendUncounted(k) ==
  LET s == ctxStream[k]
      f == enqueued[s] + 1
  IN /\ Up
     /\ ingPc[k] = "send"
     /\ ~fbClosed[s]
     /\ Len(frameBuffer[s]) < FrameBufferSize
     /\ frameBuffer' = [frameBuffer EXCEPT ![s] = Append(@, f)]
     /\ enqueued' = [enqueued EXCEPT ![s] = f]
     /\ ingPc' = [ingPc EXCEPT ![k] = IF ctxDone[k] THEN "done" ELSE "read"]
     /\ procAlive' = [procAlive EXCEPT ![k] = @ /\ ~ctxDone[k]]
     /\ UNCHANGED <<smVars, streamID, fbClosed, clients, isRunning, cancelFunc,
                    lastFrameTime, frameCount, healthStopChan, ctxStream,
                    ctxDone, bcVars, hmPc, clientVars, stopVars, reqVars, now,
                    panic>>

\* The default branch, second step: the blocking send of the frame (it
\* waits while the buffer is full and panics on a closed channel), then
\* lastFrameTime = time.Now() and frameCount++ under stream.mu, and back to
\* the select of the read loop.
IngSend(k) ==
  LET s == ctxStream[k]
      f == enqueued[s] + 1
  IN /\ Up
     /\ ingPc[k] = "send"
     /\ IF fbClosed[s]
        THEN /\ panic' = "send on closed channel: frameBuffer"
             /\ UNCHANGED <<frameBuffer, enqueued, ingPc, procAlive,
                            lastFrameTime, frameCount>>
        ELSE /\ Len(frameBuffer[s]) < FrameBufferSize
             /\ frameBuffer' = [frameBuffer EXCEPT ![s] = Append(@, f)]
             /\ enqueued' = [enqueued EXCEPT ![s] = f]
             /\ lastFrameTime' = [lastFrameTime EXCEPT ![s] = now]
             /\ frameCount' = [frameCount EXCEPT ![s] = @ + 1]
             /\ ingPc' = [ingPc EXCEPT ![k] =
                  IF ctxDone[k] THEN "done" ELSE "read"]
             /\ procAlive' = [procAlive EXCEPT ![k] = @ /\ ~ctxDone[k]]
             /\ UNCHANGED panic
     /\ UNCHANGED <<smVars, streamID, fbClosed, clients, isRunning, cancelFunc,
                    healthStopChan, ctxStream, ctxDone, bcVars, hmPc,
                    clientVars, stopVars, reqVars, now>>

\* A stall test that takes the zero time for "no frame yet, nothing stalled".
StalledSinceFrame(s) ==
  lastFrameTime[s] # 0 /\ now - lastFrameTime[s] > MaxStallDuration

\* time.Since(lastFrame) > maxStallDuration; the zero time is far in the past.
Stalled(s) == lastFrameTime[s] = 0 \/ now - lastFrameTime[s] > MaxStallDuration

\* Wall-clock time passes.  The clock is only ever compared with a
\* lastFrameTime, so it advances only while some stream that has read a
\* frame is not yet stalled.
Tick ==
  /\ Up
  /\ \E s \in StreamObjs : lastFrameTime[s] # 0 /\ ~Stalled(s)
  /\ now + ClockStep <= lim.time
  /\ now' = now + ClockStep
  /\ UNCHANGED <<smVars, streamVars, ingVars, bcVars, hmPc, clientVars,
                 stopVars, reqVars, panic>>

\* ------------------------------------------------------- distributeFrames
\* for frame := range stream.frameBuffer: the next queued frame.
BcRecv(s) ==
  /\ Up
  /\ bcPc[s] = "recv"
  /\ frameBuffer[s] # <<>>
  /\ bcFrame' = [bcFrame EXCEPT ![s] = Head(frameBuffer[s])]
  /\ received' = [received EXCEPT ![s] = Append(@, Head(frameBuffer[s]))]
  /\ frameBuffer' = [frameBuffer EXCEPT ![s] = Tail(@)]
  /\ bcPc' = [bcPc EXCEPT ![s] = "snap"]
  /\ UNCHANGED <<smCore, pullPending, pulled, urlVars, streamID, fbClosed,
                 clients, isRunning, cancelFunc, lastFrameTime, frameCount,
                 healthStopChan, enqueued, ingVars, bcTodo, hmPc, clientVars,
                 stopVars, reqVars, now, panic>>

\* A range loop that ends as soon as the channel is empty.
BcEndEarly(s) ==
  /\ Up
  /\ bcPc[s] = "recv"
  /\ frameBuffer[s] = <<>>
  /\ bcPc' = [bcPc EXCEPT ![s] = "done"]
  /\ UNCHANGED <<smVars, streamVars, ingVars, bcFrame, bcTodo, hmPc,
                 clientVars, stopVars, reqVars, now, panic>>

\* The range loop ends once the channel is closed and drained.
BcEnd(s) ==
  /\ Up
  /\ bcPc[s] = "recv"
  /\ frameBuffer[s] = <<>>
  /\ fbClosed[s]
  /\ bcPc' = [bcPc EXCEPT ![s] = "done"]
  /\ UNCHANGED <<smVars, streamVars, ingVars, bcFrame, bcTodo, hmPc,
                 clientVars, stopVars, reqVars, now, panic>>

\* Under clientsMu.RLock: copy stream.clients into the local slice.
BcSnapshot(s) ==
  /\ Up
  /\ bcPc[s] = "snap"
  /\ bcTodo' = [bcTodo EXCEPT ![s] = clients[s]]
  /\ bcPc' = [bcPc EXCEPT ![s] = IF clients[s] = {} THEN "recv" ELSE "send"]
  /\ UNCHANGED <<smVars, streamVars, ingVars, bcFrame, hmPc, clientVars,
                 stopVars, reqVars, now, panic>>

\* A send that makes room in a full queue by discarding its oldest frame.
TrySendDropOldest(q, f) ==
  IF Len(q) < ClientBufferSize THEN Append(q, f) ELSE Append(Tail(q), f)

\* A send that always queues the frame.
TrySendUnbounded(q, f) == Append(q, f)

\* A send that puts the frame at the head of the queue.
TrySendFront(q, f) == IF Len(q) < ClientBufferSize THEN <<f>> \o q ELSE q

\* A non-blocking send into a client's queue: the frame is dropped when the
\* queue is full.
TrySend(q, f) == IF Len(q) < ClientBufferSize THEN Append(q, f) ELSE q

\* A broadcaster that sends without looking at client.closed.
BcSendIgnoresClosed(s, c) ==
  /\ Up
  /\ bcPc[s] = "send"
  /\ c \in bcTodo[s]
  /\ IF sendClosed[c]
     THEN /\ panic' = "send on closed channel: send"
          /\ UNCHANGED send
     ELSE /\ send' = [send EXCEPT ![c] = TrySend(@, bcFrame[s])]
          /\ UNCHANGED panic
  /\ bcTodo' = [bcTodo EXCEPT ![s] = @ \ {c}]
  /\ bcPc' = [bcPc EXCEPT ![s] = IF bcTodo[s] = {c} THEN "recv" ELSE "send"]
  /\ UNCHANGED <<smVars, streamVars, ingVars, bcFrame, hmPc, cStream, closed,
                 sendClosed, connClosed, rpPc, wpPc, lastWritten, joinEnq,
                 joinSnap, stopVars, reqVars, now>>

\* One client of the slice, under client.mu: skipped when closed; otherwise
\* the non-blocking send (a send on a closed channel panics).
BcSend(s, c) ==
  /\ Up
  /\ bcPc[s] = "send"
  /\ c \in bcTodo[s]
  /\ IF closed[c]
     THEN UNCHANGED <<send, panic>>
     ELSE IF sendClosed[c]
     THEN /\ panic' = "send on closed channel: send"
          /\ UNCHANGED send
     ELSE /\ send' = [send EXCEPT ![c] = TrySend(@, bcFrame[s])]
          /\ UNCHANGED panic
  /\ bcTodo' = [bcTodo EXCEPT ![s] = @ \ {c}]
  /\ bcPc' = [bcPc EXCEPT ![s] = IF bcTodo[s] = {c} THEN "recv" ELSE "send"]
  /\ UNCHANGED <<smVars, streamVars, ingVars, bcFrame, hmPc, cStream, closed,
                 sendClosed, connClosed, rpPc, wpPc, lastWritten, joinEnq,
                 joinSnap, stopVars, reqVars, now>>

\* ---------------------------------------------------- monitorStreamHealth
\* case <-stream.healthStopChan: return.
HmStop(s) ==
  /\ Up
  /\ hmPc[s] = "wait"
  /\ healthStopChan[s]
  /\ hmPc' = [hmPc EXCEPT ![s] = "done"]
  /\ UNCHANGED <<smVars, streamVars, ingVars, bcVars, clientVars, stopVars,
                 reqVars, now, panic>>

\* case <-ticker.C: lastFrameTime and isRunning are read under
\* stream.mu.RLock and the stream is found running and stalled.  (A tick
\* that finds otherwise changes nothing.)
HmTick(s) ==
  /\ Up
  /\ hmPc[s] = "wait"
  /\ isRunning[s]
  /\ Stalled(s)
  /\ nCtx < lim.ctx
  /\ hmPc' = [hmPc EXCEPT ![s] = "restart"]
  /\ UNCHANGED <<smVars, streamVars, ingVars, bcVars, clientVars, stopVars,
                 reqVars, now, panic>>

\* A restart that also starts the stream's counters afresh.
HmRestartResetsCounters(s) ==
  /\ Up
  /\ hmPc[s] = "restart"
  /\ nCtx < lim.ctx
  /\ LET k == nCtx + 1
     IN /\ nCtx' = k
        /\ ctxDone' = [ctxDone EXCEPT ![cancelFunc[s]] = TRUE]
        /\ cancelFunc' = [cancelFunc EXCEPT ![s] = k]
        /\ isRunning' = [isRunning EXCEPT ![s] = FALSE]
        /\ ctxStream' = [ctxStream EXCEPT ![k] = s]
        /\ ingPc' = [ingPc EXCEPT ![k] = "loop"]
  /\ frameCount' = [frameCount EXCEPT ![s] = 0]
  /\ hmPc' = [hmPc EXCEPT ![s] = "wait"]
  /\ UNCHANGED <<streams, smClients, clientIDGen, smMu, nStreams, lim,
                 apiVars, streamID, frameBuffer, fbClosed, clients,
                 lastFrameTime, healthStopChan, enqueued, procAlive, bcVars,
                 clientVars, stopVars, reqVars, now, panic>>

\* A restart that looks the stream up in sm.streams by its id and restarts
\* whatever is registered there.
HmRestartById(s) ==
  /\ Up
  /\ hmPc[s] = "restart"
  /\ nCtx < lim.ctx
  /\ LET k == nCtx + 1
         t == IF streams[streamID[s]] # 0 THEN streams[streamID[s]] ELSE s
     IN /\ nCtx' = k
        /\ ctxDone' = [ctxDone EXCEPT ![cancelFunc[t]] = TRUE]
        /\ cancelFunc' = [cancelFunc EXCEPT ![t] = k]
        /\ isRunning' = [isRunning EXCEPT ![t] = FALSE]
        /\ ctxStream' = [ctxStream EXCEPT ![k] = t]
        /\ ingPc' = [ingPc EXCEPT ![k] = "loop"]
  /\ hmPc' = [hmPc EXCEPT ![s] = "wait"]
  /\ UNCHANGED <<streams, smClients, clientIDGen, smMu, nStreams, lim,
                 apiVars, streamID, frameBuffer, fbClosed, clients,
                 lastFrameTime, frameCount, healthStopChan, enqueued,
                 procAlive, bcVars, clientVars, stopVars, reqVars, now, panic>>

\* The restart: fire the current cancelFunc, install a new context's cancel,
\* clear isRunning, launch a new runFFmpegStream goroutine.
HmRestart(s) ==
  /\ Up
  /\ hmPc[s] = "restart"
  /\ nCtx < lim.ctx
  /\ LET k == nCtx + 1
     IN /\ nCtx' = k
        /\ ctxDone' = [ctxDone EXCEPT ![cancelFunc[s]] = TRUE]
        /\ cancelFunc' = [cancelFunc EXCEPT ![s] = k]
        /\ isRunning' = [isRunning EXCEPT ![s] = FALSE]
        /\ ctxStream' = [ctxStream EXCEPT ![k] = s]
        /\ ingPc' = [ingPc EXCEPT ![k] = "loop"]
  /\ hmPc' = [hmPc EXCEPT ![s] = "wait"]
  /\ UNCHANGED <<streams, smClients, clientIDGen, smMu, nStreams, lim,
                 apiVars, streamID, frameBuffer, fbClosed, clients,
                 lastFrameTime, frameCount, healthStopChan, enqueued,
                 procAlive, bcVars, clientVars, stopVars, reqVars, now, panic>>

\* ------------------------------------------- handleWebSocket and AddClient
\* handleWebSocket up to the upgrade: 404 for an unknown id, 503 when the
\* stream's isRunning is false.
WsCheck(id, r) ==
  /\ Up
  /\ wsPending = "none"
  /\ smMu = "free"
  /\ clientIDGen < lim.clients
  /\ IF streams[id] = 0
     THEN /\ r = 404
          /\ UNCHANGED wsPending
     ELSE IF ~isRunning[streams[id]]
     THEN /\ r = 503
          /\ UNCHANGED wsPending
     ELSE /\ r = 0
          /\ wsPending' = id
  /\ UNCHANGED <<smVars, streamVars, ingVars, bcVars, hmPc, clientVars,
                 stopVars, safePending, mainPc, lk, now, panic>>

\* The frames of a stream for which distributeFrames has already taken its
\* snapshot of stream.clients are those up to this one.
LastSnapshotted(s) == IF bcPc[s] = "snap" THEN bcFrame[s] - 1 ELSE bcFrame[s]

\* A Client that starts with the frame the broadcaster last received.
NewClientWithLastFrame(c, s) ==
  /\ cStream' = [cStream EXCEPT ![c] = s]
  /\ send' = [send EXCEPT ![c] = IF bcFrame[s] > 0 THEN <<bcFrame[s]>> ELSE <<>>]
  /\ UNCHANGED <<closed, sendClosed, connClosed, lastWritten>>

\* client := &Client{...}: a Client of stream s, not closed, with a new
\* empty send queue.
NewClient(c, s) ==
  /\ cStream' = [cStream EXCEPT ![c] = s]
  /\ send' = [send EXCEPT ![c] = <<>>]
  /\ UNCHANGED <<closed, sendClosed, connClosed, lastWritten>>

\* AddClient under sm.mu, after the upgrade: a "not found" error (404 here;
\* the handler closes the connection) when the stream is no longer
\* registered; otherwise the Client is built, inserted into
\* stream.clients and sm.clients, and its pumps are launched.
AddClient(id, r) ==
  /\ Up
  /\ wsPending = id
  /\ smMu = "free"
  /\ wsPending' = "none"
  /\ IF streams[id] = 0
     THEN /\ r = 404
          /\ UNCHANGED <<clientIDGen, clients, smClients, clientVars>>
     ELSE LET s == streams[id]
              c == clientIDGen + 1
          IN /\ r = 101
             /\ clientIDGen' = c
             /\ NewClient(c, s)
             /\ clients' = [clients EXCEPT ![s] = @ \cup {c}]
             /\ smClients' = [smClients EXCEPT ![id] = @ \cup {c}]
             /\ wpPc' = [wpPc EXCEPT ![c] = "run"]
             /\ rpPc' = [rpPc EXCEPT ![c] = "read"]
             /\ joinEnq' = [joinEnq EXCEPT ![c] = enqueued[s]]
             /\ joinSnap' = [joinSnap EXCEPT ![c] = LastSnapshotted(s)]
  /\ UNCHANGED <<streams, smMu, nStreams, nCtx, lim, apiVars, streamID,
                 frameBuffer, fbClosed, isRunning, cancelFunc, lastFrameTime,
                 frameCount, healthStopChan, enqueued, ingVars, bcVars, hmPc,
                 stopVars, safePending, mainPc, lk, now, panic>>

\* ------------------------------------------------- readPump, RemoveClient
\* c.conn.ReadMessage returns an error (the peer left, the deadline passed,
\* or the connection was closed) and the loop breaks.  The deferred function
\* reads c.closed under c.mu: when already closed it only closes the
\* connection; otherwise it goes on to call RemoveClient.
RpExit(c) ==
  /\ Up
  /\ rpPc[c] = "read"
  /\ IF closed[c]
     THEN /\ rpPc' = [rpPc EXCEPT ![c] = "done"]
          /\ connClosed' = [connClosed EXCEPT ![c] = TRUE]
     ELSE /\ rpPc' = [rpPc EXCEPT ![c] = "remove"]
          /\ UNCHANGED connClosed
  /\ UNCHANGED <<smVars, streamVars, ingVars, bcVars, hmPc, cStream, closed,
                 send, sendClosed, wpPc, lastWritten, joinEnq, joinSnap,
                 stopVars, reqVars, now, panic>>

\* A RemoveClient without the guard against double removal.
RemoveClientMarkUnguarded(c) ==
  /\ Up
  /\ rpPc[c] = "remove"
  /\ smMu = "free"
  /\ rpPc' = [rpPc EXCEPT ![c] = "remove2"]
  /\ closed' = [closed EXCEPT ![c] = TRUE]
  /\ smMu' = "RemoveClient"
  /\ UNCHANGED <<streams, smClients, clientIDGen, nStreams, nCtx, lim, apiVars,
                 streamVars, ingVars, bcVars, hmPc, cStream, send, sendClosed,
                 connClosed, wpPc, lastWritten, joinEnq, joinSnap, stopVars,
                 reqVars, now, panic>>

\* RemoveClient takes sm.mu, then under client.mu returns at once when the
\* client is already closed (readPump then closes the connection), and
\* otherwise sets closed.
RemoveClientMark(c) ==
  /\ Up
  /\ rpPc[c] = "remove"
  /\ smMu = "free"
  /\ IF closed[c]
     THEN /\ rpPc' = [rpPc EXCEPT ![c] = "done"]
          /\ connClosed' = [connClosed EXCEPT ![c] = TRUE]
          /\ UNCHANGED <<closed, smMu>>
     ELSE /\ rpPc' = [rpPc EXCEPT ![c] = "remove2"]
          /\ closed' = [closed EXCEPT ![c] = TRUE]
          /\ smMu' = "RemoveClient"
          /\ UNCHANGED connClosed
  /\ UNCHANGED <<streams, smClients, clientIDGen, nStreams, nCtx, lim, apiVars,
                 streamVars, ingVars, bcVars, hmPc, cStream, send, sendClosed,
                 wpPc, lastWritten, joinEnq, joinSnap, stopVars, reqVars, now,
                 panic>>

\* close(ch) panics when the channel is already closed.
CloseOfClosed(isClosed) == isClosed

\* A RemoveClient that returns with client.send left open.
RemoveClientFinishKeepsSend(c) ==
  LET id == streamID[cStream[c]]
      t == streams[id]
  IN /\ Up
     /\ rpPc[c] = "remove2"
     /\ clients' = IF t # 0 THEN [clients EXCEPT ![t] = @ \ {c}] ELSE clients
     /\ smClients' = [smClients EXCEPT ![id] = @ \ {c}]
     /\ IF CloseOfClosed(sendClosed[c])
        THEN /\ panic' = "close of closed channel: send"
             /\ UNCHANGED <<sendClosed, smMu, rpPc, connClosed>>
        ELSE /\ UNCHANGED sendClosed
             /\ smMu' = "free"
             /\ rpPc' = [rpPc EXCEPT ![c] = "done"]
             /\ connClosed' = [connClosed EXCEPT ![c] = TRUE]
             /\ UNCHANGED panic
     /\ UNCHANGED <<streams, clientIDGen, nStreams, nCtx, lim, apiVars,
                    streamID, frameBuffer, fbClosed, isRunning, cancelFunc,
                    lastFrameTime, frameCount, healthStopChan, enqueued,
                    ingVars, bcVars, hmPc, cStream, closed, send, wpPc,
                    lastWritten, joinEnq, joinSnap, stopVars, reqVars, now>>

\* The rest of RemoveClient: delete the client from the stream registered
\* under client.streamID (if any) and from sm.clients, close client.send,
\* release sm.mu; readPump then closes the connection.
RemoveClientFinish(c) ==
  LET id == streamID[cStream[c]]
      t == streams[id]
  IN /\ Up
     /\ rpPc[c] = "remove2"
     /\ clients' = IF t # 0 THEN [clients EXCEPT ![t] = @ \ {c}] ELSE clients
     /\ smClients' = [smClients EXCEPT ![id] = @ \ {c}]
     /\ IF CloseOfClosed(sendClosed[c])
        THEN /\ panic' = "close of closed channel: send"
             /\ UNCHANGED <<sendClosed, smMu, rpPc, connClosed>>
        ELSE /\ sendClosed' = [sendClosed EXCEPT ![c] = TRUE]
             /\ smMu' = "free"
             /\ rpPc' = [rpPc EXCEPT ![c] = "done"]
             /\ connClosed' = [connClosed EXCEPT ![c] = TRUE]
             /\ UNCHANGED panic
     /\ UNCHANGED <<streams, clientIDGen, nStreams, nCtx, lim, apiVars,
                    streamID, frameBuffer, fbClosed, isRunning, cancelFunc,
                    lastFrameTime, frameCount, healthStopChan, enqueued,
                    ingVars, bcVars, hmPc, cStream, closed, send, wpPc,
                    lastWritten, joinEnq, joinSnap, stopVars, reqVars, now>>

\* --------------------------------------------------------------- writePump
\* case frame, ok := <-c.send with a frame queued: when c.closed is set the
\* pump returns; otherwise the frame is written (ok), or the write fails and
\* the pump returns.  Returning closes the connection.
WpFrame(c, ok) ==
  /\ Up
  /\ wpPc[c] = "run"
  /\ send[c] # <<>>
  /\ ok => ~connClosed[c]
  /\ send' = [send EXCEPT ![c] = Tail(@)]
  /\ IF ~closed[c] /\ ok
     THEN /\ lastWritten' = [lastWritten EXCEPT ![c] = Head(send[c])]
          /\ UNCHANGED <<wpPc, connClosed>>
     ELSE /\ wpPc' = [wpPc EXCEPT ![c] = "done"]
          /\ connClosed' = [connClosed EXCEPT ![c] = TRUE]
          /\ UNCHANGED lastWritten
  /\ UNCHANGED <<smVars, streamVars, ingVars, bcVars, hmPc, cStream, closed,
                 sendClosed, rpPc, joinEnq, joinSnap, stopVars, reqVars, now,
                 panic>>

\* case frame, ok := <-c.send on the closed and drained channel: the close
\* message is written and the pump returns.
WpClosed(c) ==
  /\ Up
  /\ wpPc[c] = "run"
  /\ send[c] = <<>>
  /\ sendClosed[c]
  /\ wpPc' = [wpPc EXCEPT ![c] = "done"]
  /\ connClosed' = [connClosed EXCEPT ![c] = TRUE]
  /\ UNCHANGED <<smVars, streamVars, ingVars, bcVars, hmPc, cStream, closed,
                 send, sendClosed, rpPc, lastWritten, joinEnq, joinSnap,
                 stopVars, reqVars, now, panic>>

\* case <-ticker.C ending the pump: c.closed is set, or the ping fails.
WpTick(c) ==
  /\ Up
  /\ wpPc[c] = "run"
  /\ wpPc' = [wpPc EXCEPT ![c] = "done"]
  /\ connClosed' = [connClosed EXCEPT ![c] = TRUE]
  /\ UNCHANGED <<smVars, streamVars, ingVars, bcVars, hmPc, cStream, closed,
                 send, sendClosed, rpPc, lastWritten, joinEnq, joinSnap,
                 stopVars, reqVars, now, panic>>

\* -------------------------------------------------------------- StopStream
\* handleStopStream, the check: 404 for an unknown id, 409 with the client
\* count when stream.clients is not empty; otherwise it goes on to StopStream.
SafeStopCheck(id, r) ==
  /\ Up
  /\ safePending = "none"
  /\ smMu = "free"
  /\ IF streams[id] = 0
     THEN /\ r = 404
          /\ UNCHANGED safePending
     ELSE IF Cardinality(clients[streams[id]]) > 0
     THEN /\ r = 409
          /\ UNCHANGED safePending
     ELSE /\ r = 0
          /\ safePending' = id
  /\ UNCHANGED <<smVars, streamVars, ingVars, bcVars, hmPc, clientVars,
                 stopVars, wsPending, mainPc, lk, now, panic>>

\* The status a handler gives to StopStream's "not found" error; main
\* drops the error.
NotFoundStatus(caller) ==
  CASE caller = "force" -> 404
    [] caller = "safe" -> 500
    [] OTHER -> 0

\* StopStream, called by handleForceStopStream, by handleStopStream after
\* its check or by main's loop over sm.streams: take sm.mu; an unknown id
\* is an error; otherwise fire stream.cancelFunc, close
\* stream.healthStopChan and start the 100 ms sleep.
StopStream(id, caller, r) ==
  /\ Up
  /\ smMu = "free"
  /\ caller = "safe" => safePending = id
  /\ safePending' = IF caller = "safe" THEN "none" ELSE safePending
  /\ caller = "main" => mainPc = "StopStream" /\ streams[id] # 0
  /\ mainPc' = IF caller = "main" THEN "stopping" ELSE mainPc
  /\ IF streams[id] = 0
     THEN /\ r = NotFoundStatus(caller)
          /\ UNCHANGED <<smMu, ctxDone, healthStopChan, stopVars, panic>>
     ELSE LET s == streams[id]
          IN /\ r = 0
             /\ smMu' = "StopStream"
             /\ ctxDone' = [ctxDone EXCEPT ![cancelFunc[s]] = TRUE]
             /\ stopObj' = s
             /\ stopCaller' = caller
             /\ IF CloseOfClosed(healthStopChan[s])
                THEN /\ panic' = "close of closed channel: healthStopChan"
                     /\ UNCHANGED <<healthStopChan, stopPc>>
                ELSE /\ healthStopChan' = [healthStopChan EXCEPT ![s] = TRUE]
                     /\ stopPc' = "sleep"
                     /\ UNCHANGED panic
             /\ UNCHANGED stopTodo
  /\ UNCHANGED <<streams, smClients, clientIDGen, nStreams, nCtx, lim, apiVars,
                 streamID, frameBuffer, fbClosed, clients, isRunning,
                 cancelFunc, lastFrameTime, frameCount, enqueued, ctxStream,
                 ingPc, procAlive, bcVars, hmPc, clientVars, wsPending, lk,
                 now>>

\* A StopStream that goes on to the clients with the pipe left open.
StopLeavesPipeOpen ==
  /\ Up
  /\ stopPc = "sleep"
  /\ IF CloseOfClosed(fbClosed[stopObj])
     THEN /\ panic' = "close of closed channel: frameBuffer"
          /\ UNCHANGED <<fbClosed, stopPc, stopTodo>>
     ELSE /\ UNCHANGED fbClosed
          /\ stopPc' = "clients"
          /\ stopTodo' = smClients[streamID[stopObj]]
          /\ UNCHANGED panic
  /\ UNCHANGED <<smVars, streamID, frameBuffer, clients, isRunning, cancelFunc,
                 lastFrameTime, frameCount, healthStopChan, enqueued, ingVars,
                 bcVars, hmPc, clientVars, stopObj, stopCaller, reqVars, now>>

\* After the sleep: close(stream.frameBuffer); the loop over
\* sm.clients[streamID] begins.
StopClosePipe ==
  /\ Up
  /\ stopPc = "sleep"
  /\ IF CloseOfClosed(fbClosed[stopObj])
     THEN /\ panic' = "close of closed channel: frameBuffer"
          /\ UNCHANGED <<fbClosed, stopPc, stopTodo>>
     ELSE /\ fbClosed' = [fbClosed EXCEPT ![stopObj] = TRUE]
          /\ stopPc' = "clients"
          /\ stopTodo' = smClients[streamID[stopObj]]
          /\ UNCHANGED panic
  /\ UNCHANGED <<smVars, streamID, frameBuffer, clients, isRunning, cancelFunc,
                 lastFrameTime, frameCount, healthStopChan, enqueued, ingVars,
                 bcVars, hmPc, clientVars, stopObj, stopCaller, reqVars, now>>

\* A loop that passes over the client and closes nothing.
StopClientSkips(c) ==
  /\ Up
  /\ stopPc = "clients"
  /\ c \in stopTodo
  /\ stopTodo' = stopTodo \ {c}
  /\ UNCHANGED <<smVars, streamVars, ingVars, bcVars, hmPc, clientVars,
                 stopPc, stopObj, stopCaller, reqVars, now, panic>>

\* One client of the loop: under client.mu, if not closed, set closed and
\* close client.send; then close the connection.
StopClient(c) ==
  /\ Up
  /\ stopPc = "clients"
  /\ c \in stopTodo
  /\ stopTodo' = stopTodo \ {c}
  /\ IF closed[c]
     THEN /\ connClosed' = [connClosed EXCEPT ![c] = TRUE]
          /\ UNCHANGED <<closed, sendClosed, panic>>
     ELSE IF CloseOfClosed(sendClosed[c])
     THEN /\ panic' = "close of closed channel: send"
          /\ UNCHANGED <<closed, sendClosed, connClosed>>
     ELSE /\ closed' = [closed EXCEPT ![c] = TRUE]
          /\ sendClosed' = [sendClosed EXCEPT ![c] = TRUE]
          /\ connClosed' = [connClosed EXCEPT ![c] = TRUE]
          /\ UNCHANGED panic
  /\ UNCHANGED <<smVars, streamVars, ingVars, bcVars, hmPc, cStream, send,
                 rpPc, wpPc, lastWritten, joinEnq, joinSnap, stopPc, stopObj,
                 stopCaller, reqVars, now>>

\* A StopStream that leaves the entry in sm.streams.
StopDeleteKeepsEntry ==
  /\ Up
  /\ stopPc = "clients"
  /\ stopTodo = {}
  /\ smClients' = [smClients EXCEPT ![streamID[stopObj]] = {}]
  /\ smMu' = "free"
  /\ stopPc' = "idle"
  /\ stopObj' = 0
  /\ stopCaller' = "none"
  /\ mainPc' = IF stopCaller = "main" THEN "range" ELSE mainPc
  /\ UNCHANGED <<streams, clientIDGen, nStreams, nCtx, lim, apiVars,
                 streamVars, ingVars, bcVars, hmPc, clientVars, stopTodo,
                 wsPending, safePending, lk, now, panic>>

\* After the loop: delete the stream from sm.streams and sm.clients, release
\* sm.mu, return nil (the handler answers 200).
StopDelete ==
  /\ Up
  /\ stopPc = "clients"
  /\ stopTodo = {}
  /\ streams' = [streams EXCEPT ![streamID[stopObj]] = 0]
  /\ smClients' = [smClients EXCEPT ![streamID[stopObj]] = {}]
  /\ smMu' = "free"
  /\ stopPc' = "idle"
  /\ stopObj' = 0
  /\ stopCaller' = "none"
  /\ mainPc' = IF stopCaller = "main" THEN "range" ELSE mainPc
  /\ UNCHANGED <<clientIDGen, nStreams, nCtx, lim, apiVars, streamVars,
                 ingVars, bcVars, hmPc, clientVars, stopTodo, wsPending,
                 safePending, lk, now, panic>>

\* ---------------------------------------------------------- handleGetFrame
\* The lookup in sm.streams under sm.mu.RLock: 404 for an unknown id.
GetFrameLookup(id, r) ==
  /\ Up
  /\ pullPending.pc = "idle"
  /\ smMu = "free"
  /\ IF streams[id] = 0
     THEN /\ r = 404
          /\ UNCHANGED pullPending
     ELSE /\ r = 0
          /\ pullPending' = [pc |-> "check", obj |-> streams[id]]
  /\ UNCHANGED <<smCore, pulled, received, urlVars, streamVars, ingVars,
                 bcVars, hmPc, clientVars, stopVars, reqVars, now, panic>>

\* A handler that goes on to the select whatever stream.isRunning is.
GetFrameCheckSkipped(r) ==
  /\ Up
  /\ pullPending.pc = "check"
  /\ r = 0
  /\ pullPending' = [pullPending EXCEPT !.pc = "wait"]
  /\ UNCHANGED <<smCore, pulled, received, urlVars, streamVars, ingVars,
                 bcVars, hmPc, clientVars, stopVars, reqVars, now, panic>>

\* stream.isRunning read under stream.mu.RLock: 503 when it is false.
GetFrameCheck(r) ==
  /\ Up
  /\ pullPending.pc = "check"
  /\ IF ~isRunning[pullPending.obj]
     THEN /\ r = 503
          /\ pullPending' = [pc |-> "idle", obj |-> 0]
     ELSE /\ r = 0
          /\ pullPending' = [pullPending EXCEPT !.pc = "wait"]
  /\ UNCHANGED <<smCore, pulled, received, urlVars, streamVars, ingVars,
                 bcVars, hmPc, clientVars, stopVars, reqVars, now, panic>>

\* A receive that leaves the frame in the channel.
Peek(q) == q

\* What a receive leaves in the channel.
Receive(q) == Tail(q)

\* The select: a queued frame is received and returned with 200; the
\* closed and drained channel gives 503; while the channel is open and
\* empty the 5 s timer can fire, which gives 204.
GetFrameRecv(r) ==
  LET s == pullPending.obj
  IN /\ Up
     /\ pullPending.pc = "wait"
     /\ IF frameBuffer[s] # <<>>
        THEN /\ r = 200
             /\ pulled' = [pulled EXCEPT ![s] = Append(@, Head(frameBuffer[s]))]
             /\ frameBuffer' = [frameBuffer EXCEPT ![s] = Receive(@)]
        ELSE /\ r = IF fbClosed[s] THEN 503 ELSE 204
             /\ UNCHANGED <<pulled, frameBuffer>>
     /\ pullPending' = [pc |-> "idle", obj |-> 0]
     /\ UNCHANGED <<smCore, received, urlVars, streamID, fbClosed, clients,
                    isRunning, cancelFunc, lastFrameTime, frameCount,
                    healthStopChan, enqueued, ingVars, bcVars, hmPc,
                    clientVars, stopVars, reqVars, now, panic>>

Next ==
  \/ \E id \in StreamIds, r \in Statuses : StartStream(id, r)
  \/ \E k \in Ctxs, ok \in BOOLEAN : IngLoop(k, ok)
  \/ \E k \in Ctxs : IngReadFrame(k)
  \/ \E k \in Ctxs : IngReadErr(k)
  \/ \E k \in Ctxs : CtxKill(k)
  \/ \E k \in Ctxs : IngEnqueue(k)
  \/ \E s \in StreamObjs : BcRecv(s)
  \/ \E s \in StreamObjs : BcEnd(s)
  \/ \E s \in StreamObjs : BcSnapshot(s)
  \/ \E s \in StreamObjs, c \in ClientObjs : BcSend(s, c)
  \/ \E s \in StreamObjs : HmStop(s)
  \/ \E s \in StreamObjs : HmTick(s)
  \/ \E s \in StreamObjs : HmRestart(s)
  \/ \E id \in StreamIds, r \in Statuses : WsCheck(id, r)
  \/ \E id \in StreamIds, r \in Statuses : AddClient(id, r)
  \/ \E c \in ClientObjs : RpExit(c)
  \/ \E c \in ClientObjs : RemoveClientMark(c)
  \/ \E c \in ClientObjs : RemoveClientFinish(c)
  \/ \E c \in ClientObjs, ok \in BOOLEAN : WpFrame(c, ok)
  \/ \E c \in ClientObjs : WpClosed(c)
  \/ \E c \in ClientObjs : WpTick(c)
  \/ \E id \in StreamIds, r \in Statuses : SafeStopCheck(id, r)
  \/ \E id \in StreamIds, caller \in {"force", "safe"}, r \in Statuses :
        StopStream(id, caller, r)
  \/ StopClosePipe
  \/ \E c \in ClientObjs : StopClient(c)
  \/ StopDelete
  \/ Tick

Spec == Init /\ [][Next]_vars

\* ------------------------------------------------ a stream with its clients
\* The clients that can be attached.
LiveClients == 1..MaxClients

\* One stream, one run of the ingestor, clients that attach and leave, and
\* the force stop of the stream.
InitLive ==
  /\ InitState
  /\ lim = Limits(MaxStreams, MaxStreams, MaxClients, Few, HealthCheckInterval)

NextLive ==
  \/ \E id \in StreamIds, r \in Statuses : StartStream(id, r)
  \/ \E k \in Ctxs, ok \in BOOLEAN : IngLoop(k, ok)
  \/ \E k \in Ctxs : IngReadFrame(k)
  \/ \E k \in Ctxs : IngReadErr(k)
  \/ \E k \in Ctxs : CtxKill(k)
  \/ \E k \in Ctxs : IngEnqueue(k)
  \/ \E s \in StreamObjs : BcRecv(s)
  \/ \E s \in StreamObjs : BcEnd(s)
  \/ \E s \in StreamObjs : BcSnapshot(s)
  \/ \E s \in StreamObjs, c \in ClientObjs : BcSend(s, c)
  \/ \E s \in StreamObjs : HmStop(s)
  \/ \E id \in StreamIds, r \in Statuses : WsCheck(id, r)
  \/ \E id \in StreamIds, r \in Statuses : AddClient(id, r)
  \/ \E c \in ClientObjs : RpExit(c)
  \/ \E c \in ClientObjs : RemoveClientMark(c)
  \/ \E c \in ClientObjs : RemoveClientFinish(c)
  \/ \E c \in ClientObjs, ok \in BOOLEAN : WpFrame(c, ok)
  \/ \E c \in ClientObjs : WpClosed(c)
  \/ \E c \in ClientObjs : WpTick(c)
  \/ \E id \in StreamIds, r \in Statuses : StopStream(id, "force", r)
  \/ StopClosePipe
  \/ \E c \in ClientObjs : StopClient(c)
  \/ StopDelete

\* What the runtime guarantees: a goroutine that can take its next step
\* takes it.  StopStream's sleep ends and its loop and its delete run; a
\* writePump whose channel has a frame or is closed receives from it; a
\* readPump whose connection was closed gets the error from ReadMessage;
\* a RemoveClient waiting for sm.mu gets it once it stays free.  Nothing
\* is assumed of the peer, the ingestor, the broadcaster or the tickers.
FairLive ==
  /\ WF_vars(StopClosePipe)
  /\ WF_vars(\E c \in ClientObjs : StopClient(c))
  /\ WF_vars(StopDelete)
  /\ \A c \in LiveClients :
       /\ WF_vars(connClosed[c] /\ RpExit(c))
       /\ WF_vars(RemoveClientMark(c))
       /\ WF_vars(RemoveClientFinish(c))
       /\ WF_vars((\E ok \in BOOLEAN : WpFrame(c, ok)) \/ WpClosed(c))

SpecLive == InitLive /\ [][NextLive]_vars /\ FairLive

\* ------------------------------------------------- a stream under a burst
\* The ingestor reads more frames than the frame buffer holds while nobody
\* attaches, or more than a client's queue holds while the attached clients
\* do not read (their writePump is held up in conn.WriteMessage).
InitPipe ==
  /\ InitState
  /\ lim \in { Limits(MaxStreams, MaxStreams, 0, FrameBufferSize + MaxFrames,
                       HealthCheckInterval),
                Limits(MaxStreams, MaxStreams, MaxClients,
                       ClientBufferSize + Few, HealthCheckInterval) }

NextPipe ==
  \/ \E id \in StreamIds, r \in Statuses : StartStream(id, r)
  \/ \E k \in Ctxs, ok \in BOOLEAN : IngLoop(k, ok)
  \/ \E k \in Ctxs : IngReadFrame(k)
  \/ \E k \in Ctxs : IngReadErr(k)
  \/ \E k \in Ctxs : IngEnqueue(k)
  \/ \E k \in Ctxs : IngDropOldest(k)
  \/ \E k \in Ctxs : IngSend(k)
  \/ \E s \in StreamObjs : BcRecv(s)
  \/ \E s \in StreamObjs : BcSnapshot(s)
  \/ \E s \in StreamObjs, c \in ClientObjs : BcSend(s, c)
  \/ \E id \in StreamIds, r \in Statuses : WsCheck(id, r)
  \/ \E id \in StreamIds, r \in Statuses : AddClient(id, r)

SpecPipe == InitPipe /\ [][NextPipe]_vars

\* ------------------------------------------- a stream polled for its frames
\* One stream with a client attached, polled through handleGetFrame while
\* it runs and while it is force-stopped.
InitPull ==
  /\ InitState
  /\ lim = Limits(MaxStreams, MaxStreams, Few, MaxFrames, HealthCheckInterval)

NextPull ==
  \/ \E id \in StreamIds, r \in Statuses : StartStream(id, r)
  \/ \E k \in Ctxs, ok \in BOOLEAN : IngLoop(k, ok)
  \/ \E k \in Ctxs : IngReadFrame(k)
  \/ \E k \in Ctxs : IngReadErr(k)
  \/ \E k \in Ctxs : CtxKill(k)
  \/ \E k \in Ctxs : IngEnqueue(k)
  \/ \E s \in StreamObjs : BcRecv(s)
  \/ \E s \in StreamObjs : BcEnd(s)
  \/ \E s \in StreamObjs : BcSnapshot(s)
  \/ \E s \in StreamObjs, c \in ClientObjs : BcSend(s, c)
  \/ \E s \in StreamObjs : HmStop(s)
  \/ \E id \in StreamIds, r \in Statuses : WsCheck(id, r)
  \/ \E id \in StreamIds, r \in Statuses : AddClient(id, r)
  \/ \E c \in ClientObjs, ok \in BOOLEAN : WpFrame(c, ok)
  \/ \E c \in ClientObjs : WpClosed(c)
  \/ \E id \in StreamIds, r \in Statuses : StopStream(id, "force", r)
  \/ StopClosePipe
  \/ \E c \in ClientObjs : StopClient(c)
  \/ StopDelete
  \/ \E id \in StreamIds, r \in Statuses : GetFrameLookup(id, r)
  \/ \E r \in Statuses : GetFrameCheck(r)
  \/ \E r \in Statuses : GetFrameRecv(r)

SpecPull == InitPull /\ [][NextPull]_vars

\* ------------------------------------------- streams started from their URL
\* Requests of handleStartStreamWithURL, two at a time, for two URLs; the
\* streams they register have their ingestor launched and are force-stopped.
InitUrl ==
  /\ InitState
  /\ lim = Limits(MaxUrlStreams, MaxUrlStreams, 0, Few, HealthCheckInterval)

NextUrl ==
  \/ \E q \in UrlReqs, u \in Urls, r \in Statuses : UrlCheck(q, u, r)
  \/ \E q \in UrlReqs, r \in Statuses : UrlStart(q, r)
  \/ \E k \in Ctxs, ok \in BOOLEAN : IngLoop(k, ok)
  \/ \E id \in UrlIds, r \in Statuses : StopStream(id, "force", r)
  \/ StopClosePipe
  \/ StopDelete

SpecUrl == InitUrl /\ [][NextUrl]_vars

\* --------------------------------------------- a stream and its restarts
\* One stream without clients that is never stopped: its ingestor starts,
\* fails, retries and reads, and its health monitor restarts it up to
\* twice.
InitStall ==
  /\ InitState
  /\ lim = Limits(MaxStreams, MaxCtx + Few, 0, MaxFrames, MaxTime)

NextStall ==
  \/ \E id \in StreamIds, r \in Statuses : StartStream(id, r)
  \/ \E k \in Ctxs, ok \in BOOLEAN : IngLoop(k, ok)
  \/ \E k \in Ctxs : IngReadFrame(k)
  \/ \E k \in Ctxs : IngReadErr(k)
  \/ \E k \in Ctxs : CtxKill(k)
  \/ \E k \in Ctxs : IngEnqueue(k)
  \/ \E s \in StreamObjs : BcRecv(s)
  \/ \E s \in StreamObjs : BcSnapshot(s)
  \/ \E s \in StreamObjs : HmTick(s)
  \/ \E s \in StreamObjs : HmRestart(s)
  \/ Tick

SpecStall == InitStall /\ [][NextStall]_vars

\* The goroutine of runFFmpegStream is scheduled, and a transcoder that is
\* started again and again starts in the end.
FairStall == \A k \in Ctxs : WF_vars(IngLoop(k, TRUE))

SpecRetry == InitStall /\ [][NextStall]_vars /\ FairStall

\* ------------------------------------------------ clients that drop out
\* One running stream that is not stopped, and clients that attach, are
\* sent frames and leave on a failure of their transport.  A readPump whose
\* connection was closed gets the error from ReadMessage, a RemoveClient
\* waiting for sm.mu gets it, and a writePump whose channel has a frame or
\* is closed receives from it.
NextDrop ==
  \/ \E id \in StreamIds, r \in Statuses : StartStream(id, r)
  \/ \E k \in Ctxs, ok \in BOOLEAN : IngLoop(k, ok)
  \/ \E k \in Ctxs : IngReadFrame(k)
  \/ \E k \in Ctxs : IngEnqueue(k)
  \/ \E s \in StreamObjs : BcRecv(s)
  \/ \E s \in StreamObjs : BcSnapshot(s)
  \/ \E s \in StreamObjs, c \in ClientObjs : BcSend(s, c)
  \/ \E id \in StreamIds, r \in Statuses : WsCheck(id, r)
  \/ \E id \in StreamIds, r \in Statuses : AddClient(id, r)
  \/ \E c \in ClientObjs : RpExit(c)
  \/ \E c \in ClientObjs : RemoveClientMark(c)
  \/ \E c \in ClientObjs : RemoveClientFinish(c)
  \/ \E c \in ClientObjs, ok \in BOOLEAN : WpFrame(c, ok)
  \/ \E c \in ClientObjs : WpClosed(c)
  \/ \E c \in ClientObjs : WpTick(c)

FairDrop ==
  \A c \in LiveClients :
    /\ WF_vars(connClosed[c] /\ RpExit(c))
    /\ WF_vars(RemoveClientMark(c))
    /\ WF_vars(RemoveClientFinish(c))
    /\ WF_vars((\E ok \in BOOLEAN : WpFrame(c, ok)) \/ WpClosed(c))

SpecDrop == InitLive /\ [][NextDrop]_vars /\ FairDrop

\* ------------------------------------------------ the broadcaster's end
\* One stream with a client, a few frames and a force stop.  The goroutine
\* of distributeFrames is scheduled: its receive, its copy of the clients
\* and its sends take place, as do the steps of a stop that has begun.
NextBc ==
  \/ \E id \in StreamIds, r \in Statuses : StartStream(id, r)
  \/ \E k \in Ctxs, ok \in BOOLEAN : IngLoop(k, ok)
  \/ \E k \in Ctxs : IngReadFrame(k)
  \/ \E k \in Ctxs : IngEnqueue(k)
  \/ \E s \in StreamObjs : BcRecv(s)
  \/ \E s \in StreamObjs : BcEnd(s)
  \/ \E s \in StreamObjs : BcSnapshot(s)
  \/ \E s \in StreamObjs, c \in ClientObjs : BcSend(s, c)
  \/ \E id \in StreamIds, r \in Statuses : WsCheck(id, r)
  \/ \E id \in StreamIds, r \in Statuses : AddClient(id, r)
  \/ \E c \in ClientObjs : RpExit(c)
  \/ \E c \in ClientObjs : RemoveClientMark(c)
  \/ \E c \in ClientObjs : RemoveClientFinish(c)
  \/ \E id \in StreamIds, r \in Statuses : StopStream(id, "force", r)
  \/ StopClosePipe
  \/ \E c \in ClientObjs : StopClient(c)
  \/ StopDelete

FairBc ==
  /\ \A s \in StreamObjs :
       /\ WF_vars(BcRecv(s))
       /\ WF_vars(BcEnd(s))
       /\ WF_vars(BcSnapshot(s))
       /\ WF_vars(\E c \in ClientObjs : BcSend(s, c))
  /\ WF_vars(StopClosePipe)
  /\ WF_vars(\E c \in ClientObjs : StopClient(c))
  /\ WF_vars(StopDelete)

SpecBc == InitPull /\ [][NextBc]_vars /\ FairBc

\* ------------------------------------------------------------------- main
\* main after the signal: sm.mu.Lock(), which waits for the lock, and then
\* the loop over sm.streams.
MainSignal ==
  /\ Up
  /\ mainPc = "serve"
  /\ smMu = "free"
  /\ smMu' = "main"
  /\ mainPc' = "range"
  /\ UNCHANGED <<streams, smClients, clientIDGen, nStreams, nCtx, lim, apiVars,
                 streamVars, ingVars, bcVars, hmPc, clientVars, stopVars,
                 wsPending, safePending, lk, now, panic>>

\* The head of the loop: with a stream left in sm.streams main calls
\* sm.StopStream for it, whose first statement is sm.mu.Lock(); with none
\* left it unlocks sm.mu (unlocking a mutex that is not locked is fatal).
MainRange ==
  /\ Up
  /\ mainPc = "range"
  /\ IF \E id \in Ids : streams[id] # 0
     THEN /\ mainPc' = "StopStream"
          /\ UNCHANGED <<smMu, panic>>
     ELSE IF smMu = "main"
          THEN /\ smMu' = "free"
               /\ mainPc' = "shutdown"
               /\ UNCHANGED panic
          ELSE /\ panic' = "sync: Unlock of unlocked RWMutex"
               /\ UNCHANGED <<smMu, mainPc>>
  /\ UNCHANGED <<streams, smClients, clientIDGen, nStreams, nCtx, lim, apiVars,
                 streamVars, ingVars, bcVars, hmPc, clientVars, stopVars,
                 wsPending, safePending, lk, now>>

\* srv.Shutdown and the return of main, which ends the process.
MainShutdown ==
  /\ Up
  /\ mainPc = "shutdown"
  /\ mainPc' = "exited"
  /\ UNCHANGED <<smVars, streamVars, ingVars, bcVars, hmPc, clientVars,
                 stopVars, wsPending, safePending, lk, now, panic>>

\* One stream without clients, force stop, and the shutdown of main at any
\* moment.  The goroutines of main and of the stop are scheduled.
Callers == {"force", "main"}

InitShutdown ==
  /\ InitState
  /\ lim = Limits(MaxStreams, MaxStreams, 0, Few, HealthCheckInterval)

NextShutdown ==
  \/ \E id \in StreamIds, r \in Statuses : StartStream(id, r)
  \/ \E k \in Ctxs, ok \in BOOLEAN : IngLoop(k, ok)
  \/ \E k \in Ctxs : IngReadFrame(k)
  \/ \E k \in Ctxs : IngEnqueue(k)
  \/ \E s \in StreamObjs : BcRecv(s)
  \/ \E id \in StreamIds, caller \in Callers, r \in Statuses :
       StopStream(id, caller, r)
  \/ StopClosePipe
  \/ StopDelete
  \/ MainSignal
  \/ MainRange
  \/ MainShutdown

FairShutdown ==
  /\ WF_vars(MainSignal)
  /\ WF_vars(MainRange)
  /\ WF_vars(MainShutdown)
  /\ \A id \in StreamIds, caller \in Callers, r \in Statuses :
       WF_vars(StopStream(id, caller, r))
  /\ WF_vars(StopClosePipe)
  /\ WF_vars(StopDelete)

SpecShutdown == InitShutdown /\ [][NextShutdown]_vars /\ FairShutdown

\* ------------------------------------------------------------ two streams
\* Two streams side by side, without clients: each is started, ingests and
\* is force-stopped on its own.
PairIds == StreamIds \cup {StreamIDOf("rtsp://x")}

InitPair ==
  /\ InitState
  /\ lim = Limits(MaxUrlStreams, MaxUrlStreams, 0, Few, HealthCheckInterval)

NextPair ==
  \/ \E id \in PairIds, r \in Statuses : StartStream(id, r)
  \/ \E k \in Ctxs, ok \in BOOLEAN : IngLoop(k, ok)
  \/ \E k \in Ctxs : IngReadFrame(k)
  \/ \E k \in Ctxs : IngEnqueue(k)
  \/ \E id \in PairIds, r \in Statuses : StopStream(id, "force", r)
  \/ StopClosePipe
  \/ StopDelete

SpecPair == InitPair /\ [][NextPair]_vars
\* ---------------------------------------------------------------- claims
\* A Stream object is in the registry when sm.streams maps its id to it.
Registered(s) == streamID[s] # "none" /\ streams[streamID[s]] = s

\* The Stream objects built so far.
Allocated == 1..nStreams

\* The frames a client has been given: the last one written to its
\* transport (if any) and those waiting in its send queue, oldest first.
Delivered(c) ==
  (IF lastWritten[c] = 0 THEN <<>> ELSE <<lastWritten[c]>>) \o send[c]

StrictlyIncreasing(q) == \A i \in 1..(Len(q) - 1) : q[i] < q[i + 1]

\* C1: no execution closes a client's send queue twice: the panic "close of
\* closed channel" on client.send is unreachable, whatever the interleaving
\* of readPump's exit into RemoveClient, writePump's exit and StopStream.
C1_NoDoubleClose == panic # "close of closed channel: send"

\* C1's case: readPump has decided to call RemoveClient on a client whose
\* queue StopStream has meanwhile closed, and StopStream has finished.
C1_Witness ==
  \E c \in ClientObjs : rpPc[c] = "remove" /\ sendClosed[c] /\ smMu = "free"

\* The transcoder children alive for a stream id.
LiveTranscoders(id) ==
  {k \in Ctxs : procAlive[k] /\ streamID[ctxStream[k]] = id}

\* C2: at every instant each stream id has at most one live transcoder
\* subprocess.
C2_SingleIngest == \A id \in StreamIds : Cardinality(LiveTranscoders(id)) <= 1

\* C3: what a client is given (queued by distributeFrames, written by
\* writePump) follows the order in which the frames entered the pipe, a
\* frame being named by its rank in that order: no reordering, no frame
\* twice, and only frames of the client's own stream.
C3_FanOutOrder ==
  \A c \in ClientObjs :
    /\ StrictlyIncreasing(Delivered(c))
    /\ \A i \in 1..Len(Delivered(c)) :
         Delivered(c)[i] \in 1..enqueued[cStream[c]]

\* C3's case: a client has been written one frame and holds a later one.
C3_Witness ==
  \E c \in ClientObjs : lastWritten[c] # 0 /\ send[c] # <<>>

\* A runFFmpegStream goroutine of s exists that has not returned and whose
\* context has not been cancelled.
IngestorScheduled(s) ==
  \E k \in Ctxs : /\ ctxStream[k] = s
                  /\ ingPc[k] \in {"loop", "read"} \cup Holding
                  /\ ~ctxDone[k]

\* C4: outside StopStream's critical section, a Stream is registered iff
\* its pipe is open and an ingestor is scheduled for it; in particular a
\* removed Stream has no ingestor running or launched.
C4_RegistryConsistency ==
  smMu = "free" =>
    \A s \in Allocated :
      /\ Registered(s) <=> (~fbClosed[s] /\ IngestorScheduled(s))
      /\ ~Registered(s) => ~IngestorScheduled(s)

\* C5: a safe stop never tears down a stream that has a client attached:
\* while handleStopStream's StopStream is at work, stream.clients is empty.
C5_SafeStopSparesClients ==
  (stopPc # "idle" /\ stopCaller = "safe") => clients[stopObj] = {}

\* C6: an attach that reaches AddClient while the stream's isRunning is
\* false is answered 503 and inserts no Client.
C6_AttachNeedsRunning ==
  [][\A id \in StreamIds, r \in Statuses :
       (AddClient(id, r) /\ streams[id] # 0 /\ ~isRunning[streams[id]])
         => (r = 503 /\ clientIDGen' = clientIDGen /\ clients' = clients)]_vars

\* No transcoder of s is alive and no frame has ever been read from one.
OnlyErrors(s) ==
  /\ frameCount[s] = 0
  /\ enqueued[s] = 0
  /\ \A k \in Ctxs :
       ctxStream[k] = s => ~procAlive[k] /\ ingPc[k] \notin Holding

\* C7: while every start or run of a stream's transcoder has ended in an
\* error and no frame has been read, handleWebSocket answers 503.
C7_OnlyErrorsNotRunning ==
  [][\A id \in StreamIds, r \in Statuses :
       (WsCheck(id, r) /\ streams[id] # 0 /\ OnlyErrors(streams[id]))
         => r = 503]_vars

\* C8 as stated: a client is given no frame that had entered the pipe when
\* AddClient attached it.
C8_NoFrameFromBeforeAttach ==
  \A c \in ClientObjs :
    \A i \in 1..Len(Delivered(c)) : Delivered(c)[i] > joinEnq[c]

\* C8 as the code has it: a client is given no frame for which
\* distributeFrames had taken its copy of stream.clients when AddClient
\* attached it.
C8_NoFrameSnapshottedBeforeAttach ==
  \A c \in ClientObjs :
    \A i \in 1..Len(Delivered(c)) : Delivered(c)[i] > joinSnap[c]

\* C8's case: a client holds a frame that was already in the pipe, or in
\* the broadcaster's hand, when the client was attached.
C8_Witness ==
  \E c \in ClientObjs :
    \E i \in 1..Len(Delivered(c)) : Delivered(c)[i] <= joinEnq[c]

\* C9: StartStream answers "already exists" exactly when the id is
\* registered, and then nothing changes; otherwise it succeeds, registers
\* one new Stream with a new open and empty pipe, and launches exactly one
\* ingestor, one broadcaster and one health monitor, all for that Stream.
C9_StartStreamAtomic ==
  [][\A id \in StreamIds, r \in Statuses :
       StartStream(id, r) =>
         /\ (r = 500) <=> (streams[id] # 0)
         /\ (r = 500) => UNCHANGED vars
         /\ (r # 500) =>
              LET s == streams'[id]
              IN /\ r = 200
                 /\ s = nStreams + 1 /\ nStreams' = s
                 /\ \A j \in StreamIds \ {id} : streams'[j] = streams[j]
                 /\ frameBuffer'[s] = <<>> /\ ~fbClosed'[s]
                 /\ clients'[s] = {} /\ smClients'[id] = {}
                 /\ ~isRunning'[s]
                 /\ {k \in Ctxs : ingPc'[k] # ingPc[k]} = {cancelFunc'[s]}
                 /\ ingPc'[cancelFunc'[s]] = "loop"
                 /\ ctxStream'[cancelFunc'[s]] = s
                 /\ ~ctxDone'[cancelFunc'[s]]
                 /\ {x \in StreamObjs : bcPc'[x] # bcPc[x]} = {s}
                 /\ {x \in StreamObjs : hmPc'[x] # hmPc[x]} = {s}
                 /\ bcPc'[s] = "recv" /\ hmPc'[s] = "wait"]_vars

\* C9's case: a registered Stream with a client attached, on which a second
\* StartStream is an "already exists".
C9_Witness ==
  \E id \in StreamIds :
    /\ streams[id] # 0
    /\ smClients[id] # {}
    /\ smMu = "free"
    /\ Up

\* C10: StopStream on an unknown id answers "not found" and changes
\* nothing; on a known id it cancels the stream's context and closes
\* healthStopChan, and when it ends the id is no longer registered, so a
\* later StopStream, lookup or attach on the id finds nothing: while an id
\* is not registered no handler passes its lookup of it, no Client is built
\* and no teardown starts.  A Stream's healthStopChan and pipe are never
\* closed twice, are open while the Stream is registered and closed once it
\* has been removed.
C10_StopStreamAtomic ==
  /\ [](panic \notin {"close of closed channel: healthStopChan",
                      "close of closed channel: frameBuffer"})
  /\ [](smMu = "free" =>
          \A s \in Allocated : /\ Registered(s) <=> ~healthStopChan[s]
                               /\ Registered(s) <=> ~fbClosed[s])
  /\ [][\A id \in StreamIds, caller \in {"force", "safe"}, r \in Statuses :
          StopStream(id, caller, r) =>
            IF streams[id] = 0
            THEN /\ r = NotFoundStatus(caller)
                 /\ UNCHANGED <<smVars, streamVars, ingVars, bcVars, hmPc,
                                clientVars, stopVars, wsPending, mainPc, lk,
                                now, panic>>
            ELSE /\ r = 0
                 /\ smMu' = "StopStream"
                 /\ ctxDone'[cancelFunc[streams[id]]]
                 /\ healthStopChan'[streams[id]]
                 /\ ~healthStopChan[streams[id]]]_vars
  /\ [][StopDelete =>
          /\ streams'[streamID[stopObj]] = 0
          /\ fbClosed[stopObj] /\ healthStopChan[stopObj]]_vars
  /\ [][\A id \in StreamIds :
          streams[id] = 0 =>
            /\ wsPending' = id => wsPending = id
            /\ safePending' = id => safePending = id
            /\ clientIDGen' = clientIDGen
            /\ stopPc' = stopPc]_vars

\* C10's case: a Stream has been torn down and removed, and a further
\* StopStream on its id finds nothing.
C10_Witness ==
  \E s \in Allocated :
    /\ ~Registered(s)
    /\ streams[streamID[s]] = 0
    /\ fbClosed[s] /\ healthStopChan[s]
    /\ smMu = "free"

\* C16: the frameCount of a Stream never decreases and its lastFrameTime
\* never moves backwards, whatever step is taken: a frame read, an exit of
\* the child and the retry, or a restart by the health monitor.
C16_MonotoneCounters ==
  [][\A s \in StreamObjs : /\ frameCount'[s] >= frameCount[s]
                           /\ lastFrameTime'[s] >= lastFrameTime[s]]_vars

\* A stream that has counted a frame and has been restarted by its health
\* monitor: one of its contexts is no longer the current one.
C16_Witness ==
  \E s \in Allocated :
    /\ frameCount[s] >= 1
    /\ \E k \in Ctxs : ctxStream[k] = s /\ k # cancelFunc[s]

\* The transport of a client is closed and its two pumps have returned.
ClientEnded(c) ==
  /\ sendClosed[c]
  /\ connClosed[c]
  /\ wpPc[c] = "done"
  /\ rpPc[c] = "done"

\* A force stop has taken sm.mu for the stream the client is attached to.
ForceStopping(c) ==
  /\ stopPc = "sleep"
  /\ stopCaller = "force"
  /\ c \in smClients[streamID[stopObj]]

\* C11: once a force stop of a stream has begun, every client attached to
\* it eventually has its send queue closed, its connection closed and both
\* its writePump and its readPump returned (or the process has ended in a
\* panic, which ends every task).
C11_ForceStopEndsClients ==
  \A c \in LiveClients : ForceStopping(c) ~> (ClientEnded(c) \/ ~Up)

\* A force stop still in its loop has dealt with a client, and that client's
\* pumps have both returned.
C11_Witness ==
  /\ Up
  /\ stopPc = "clients"
  /\ stopCaller = "force"
  /\ \E c \in smClients[streamID[stopObj]] \ stopTodo : ClientEnded(c)

\* C14: in every reachable state the frame buffer of a stream holds at most
\* FrameBufferSize (100) frames and the send queue of a client at most
\* ClientBufferSize (10).
C14_BoundedQueues ==
  /\ \A s \in StreamObjs : Len(frameBuffer[s]) <= FrameBufferSize
  /\ \A c \in ClientObjs : Len(send[c]) <= ClientBufferSize

\* A client's queue is full and the broadcaster is about to offer it one
\* more frame.
C14_Witness ==
  \E s \in StreamObjs, c \in ClientObjs :
    /\ bcPc[s] = "send"
    /\ c \in bcTodo[s]
    /\ ~closed[c]
    /\ Len(send[c]) = ClientBufferSize

\* The frame buffer of s holds, in order, the frames queued last.
LatestRun(s) ==
  \A i \in 1..Len(frameBuffer[s]) :
    frameBuffer[s][i] = enqueued[s] - Len(frameBuffer[s]) + i

\* A step in which the ingestor k takes a frame out of the frame buffer.
IngestorRemoves(k) ==
  /\ ingPc[k] = "drop"
  /\ ingPc'[k] = "send"
  /\ frameBuffer'[ctxStream[k]] # frameBuffer[ctxStream[k]]

Min(a, b) == IF a <= b THEN a ELSE b

\* The ingestor of s holds no frame: every frame read has been queued.
AllQueued(s) == FramesInHand(s) = 0

\* C15, as stated: while no client has attached, once the ingestor has
\* queued the n frames it has read, frameCount is n and the frame buffer
\* holds min(n, FrameBufferSize) frames, and there has been no panic.
C15_DepthIsMin ==
  \A s \in StreamObjs :
    clientIDGen = 0 /\ AllQueued(s) =>
      /\ frameCount[s] = enqueued[s]
      /\ Len(frameBuffer[s]) = Min(enqueued[s], FrameBufferSize)
      /\ Up

\* C15, as the code has it: once the ingestor has queued the n frames it
\* has read, frameCount is n, whether or not frames were dropped on the
\* way, and the frame buffer holds at most min(n, FrameBufferSize) frames
\* (the broadcaster takes frames out even when no client is attached); no
\* panic has occurred.
C15_CountsEveryFrame ==
  \A s \in StreamObjs :
    AllQueued(s) =>
      /\ frameCount[s] = enqueued[s]
      /\ Len(frameBuffer[s]) <= Min(enqueued[s], FrameBufferSize)
      /\ Up

\* Nobody has attached and the ingestor has queued more frames than the
\* frame buffer holds, which is full.
C15_Witness ==
  \E s \in StreamObjs :
    /\ clientIDGen = 0
    /\ AllQueued(s)
    /\ enqueued[s] > FrameBufferSize
    /\ Len(frameBuffer[s]) = FrameBufferSize

\* The frames in a queue.
Frames(q) == {q[i] : i \in 1..Len(q)}

\* A step in which distributeFrames deals with client c of its slice.
Offers(s, c) ==
  /\ bcPc[s] = "send"
  /\ c \in bcTodo[s]
  /\ c \notin bcTodo'[s]

\* C12: distributeFrames never waits for a client (in its loop the step for
\* each client left in the slice can be taken, and between frames it can
\* receive whatever is queued in the frame buffer); a frame offered to an
\* open client is queued when the client's queue has room and dropped when
\* it is full, the full queue keeping the frames it had; the step changes
\* no other client's queue, whatever the state of the queues already
\* served.
C12_SlowClientDropsNewest ==
  /\ [](\A s \in StreamObjs :
          Up /\ bcPc[s] = "send" =>
            /\ bcTodo[s] # {}
            /\ \A c \in bcTodo[s] : ENABLED BcSend(s, c))
  /\ [](\A s \in StreamObjs :
          Up /\ bcPc[s] = "recv" /\ frameBuffer[s] # <<>> =>
            ENABLED BcRecv(s))
  /\ [][\A s \in StreamObjs, c \in ClientObjs :
          Offers(s, c) =>
            /\ \A d \in ClientObjs \ {c} : send'[d] = send[d]
            /\ ~closed[c] /\ ~sendClosed[c] =>
                 send'[c] = IF Len(send[c]) < ClientBufferSize
                            THEN Append(send[c], bcFrame[s])
                            ELSE send[c]
            /\ frameBuffer' = frameBuffer
      ]_vars

\* A client whose queue is full was refused a frame that another client,
\* served in the same round, holds.
C12_Witness ==
  \E s \in StreamObjs, c, d \in ClientObjs :
    /\ bcPc[s] = "recv"
    /\ Len(send[c]) = ClientBufferSize
    /\ bcFrame[s] \notin Frames(send[c])
    /\ bcFrame[s] \in Frames(send[d])
    /\ joinSnap[c] < bcFrame[s]

\* C17: a frame returned by handleGetFrame has left the frame buffer and is
\* returned once only; it is not among the frames distributeFrames received
\* and no client is given it.  While no frame has been dropped by the
\* ingestor, every frame that has left the frame buffer went either to
\* distributeFrames or to a caller of handleGetFrame, never to both.
C17_PullConsumes ==
  \A s \in StreamObjs :
    /\ StrictlyIncreasing(pulled[s])
    /\ Frames(pulled[s]) \cap Frames(frameBuffer[s]) = {}
    /\ Frames(pulled[s]) \cap Frames(received[s]) = {}
    /\ Frames(received[s]) \cap Frames(frameBuffer[s]) = {}
    /\ \A c \in ClientObjs :
         cStream[c] = s =>
           /\ Frames(Delivered(c)) \subseteq Frames(received[s])
           /\ Frames(Delivered(c)) \cap Frames(pulled[s]) = {}
    /\ enqueued[s] <= FrameBufferSize =>
         Frames(pulled[s]) \cup Frames(received[s])
           \cup Frames(frameBuffer[s]) = 1..enqueued[s]

\* One frame of a stream went to a caller of handleGetFrame and another
\* to an attached client.
C17_Witness ==
  \E s \in StreamObjs, c \in ClientObjs :
    /\ pulled[s] # <<>>
    /\ cStream[c] = s
    /\ Delivered(c) # <<>>

\* Everything but the position of the handleGetFrame request.
PullLeaves ==
  <<smCore, pulled, received, urlVars, streamVars, ingVars, bcVars, hmPc,
    clientVars, stopVars, reqVars, now, panic>>

\* The Stream object handleGetFrame is working on.
PullObj == pullPending.obj

UrlLeaves ==
  <<smCore, pullPending, pulled, received, streamVars, ingVars, bcVars, hmPc,
    clientVars, stopVars, reqVars, now, panic>>

\* Request q gets an answer in this step.
Answered(q) == urlAnswer'[q] # urlAnswer[q]

\* C19: the stream_id in an answer of start-with-url is the id derived from
\* the request's URL, the same in every answer for that URL.  A request
\* answered "started" registers one new Stream under that id, with its own
\* frame buffer and one ingestor.  A request for a URL whose id is
\* registered when the request looks it up is answered "already running"
\* with that id, and its step builds no Stream, no frame buffer and no
\* ingestor and changes nothing of the registered stream.
C19_SameUrlSameStream ==
  [][\A q \in UrlReqs :
       /\ \A u \in Urls, r \in Statuses :
            UrlCheck(q, u, r) /\ streams[StreamIDOf(u)] # 0 =>
              /\ r = 200
              /\ urlAnswer'[q] = AlreadyRunning(StreamIDOf(u))
              /\ UNCHANGED UrlLeaves
       /\ Answered(q) /\ urlAnswer'[q].msg = "Stream already running" =>
            /\ streams[urlAnswer'[q].id] # 0
            /\ UNCHANGED UrlLeaves
       /\ Answered(q) /\ urlAnswer'[q].msg = "Stream started successfully" =>
            /\ urlAnswer'[q].id = StreamIDOf(urlPending[q])
            /\ streams[urlAnswer'[q].id] = 0
            /\ nStreams' = nStreams + 1
            /\ nCtx' = nCtx + 1
            /\ streams' = [streams EXCEPT ![urlAnswer'[q].id] = nStreams']
            /\ streamID'[nStreams'] = urlAnswer'[q].id
            /\ frameBuffer'[nStreams'] = <<>> /\ ~fbClosed'[nStreams']
            /\ ctxStream'[nCtx'] = nStreams' /\ ingPc'[nCtx'] = "loop"
    ]_vars

\* Two requests for one URL, one after the other: the first was answered
\* "started", the second "already running" with the same stream_id, and
\* one Stream and one ingestor have been built.
C19_Witness ==
  \E q, p \in UrlReqs :
    /\ urlAnswer[q].msg = "Stream started successfully"
    /\ urlAnswer[p].msg = "Stream already running"
    /\ urlAnswer[p].id = urlAnswer[q].id
    /\ streams[urlAnswer[q].id] = 1
    /\ nStreams = 1
    /\ nCtx = 1

\* C20: no request of start-with-url is answered with the error of a
\* duplicate create: every answer is "started" or "already running".
C20_NeverAlreadyExists ==
  \A q \in UrlReqs : urlAnswer[q] # Failed

\* C21: handleStopStream answers 404 whenever the id is not in sm.streams,
\* at its check and at its call of StopStream alike (a concurrent stop may
\* have removed the stream in between), and never anything but 200, 409 or
\* 404 (0: no answer yet, the teardown goes on).
C21_SafeStopAnswers ==
  [][\A id \in StreamIds, r \in Statuses :
       SafeStopCheck(id, r) \/ StopStream(id, "safe", r) =>
         /\ r \in {0, 200, 404, 409}
         /\ streams[id] = 0 => r = 404
    ]_vars

\* The context k was installed by a restart of the health monitor: its
\* stream had a context before it.
Relaunched(k) ==
  \E j \in Ctxs : j < k /\ ctxStream[j] = ctxStream[k] /\ ctxStream[k] # 0

\* A step in which the ingestor of context k queues the frame it read.
Yields(k) ==
  /\ ingPc[k] \in Holding
  /\ ingPc'[k] \notin Holding
  /\ enqueued'[ctxStream[k]] = enqueued[ctxStream[k]] + 1

\* C22: once the subprocess spawned after a stall restart yields a frame,
\* isRunning is true and lastFrameTime is the time of that frame, no
\* earlier than it was.
C22_RestartRecovers ==
  [][\A k \in Ctxs :
       Relaunched(k) /\ Yields(k) =>
         /\ isRunning'[ctxStream[k]]
         /\ lastFrameTime'[ctxStream[k]] = now
         /\ lastFrameTime'[ctxStream[k]] >= lastFrameTime[ctxStream[k]]
    ]_vars

StreamView(s) ==
  <<streamID[s], frameBuffer[s], fbClosed[s], clients[s], isRunning[s],
    cancelFunc[s], lastFrameTime[s], frameCount[s], healthStopChan[s],
    Registered(s),
    IF streamID[s] = "none" THEN {} ELSE smClients[streamID[s]],
    bcPc[s], hmPc[s],
    [k \in {j \in Ctxs : ctxStream[j] = s} |->
       <<ctxDone[k], ingPc[k], procAlive[k]>>]>>

\* The goroutines of stream s run: the process has not ended in a panic.
TasksUp(s) == Registered(s) /\ panic = "none"

\* C24: a step that changes one stream leaves every other registered
\* stream as it was, and a stream's goroutines are ended by nothing but a
\* stop of that stream.
C24_StreamsIsolated ==
  [][\A b \in StreamObjs :
       TasksUp(b) =>
         /\ (\E a \in StreamObjs \ {b} : StreamView(a)' # StreamView(a))
              => StreamView(b)' = StreamView(b)
         /\ stopObj # b => TasksUp(b)'
    ]_vars

\* C25: once main holds sm.mu for its loop over sm.streams the shutdown
\* runs to completion: the loop ends, with every stream it found stopped,
\* and main returns (or the process has ended in a panic before).
C25_ShutdownCompletes ==
  mainPc = "range" ~> (mainPc = "exited" \/ panic # "none")

\* C26: no ingestor sends a frame on a frameBuffer that StopStream has
\* closed: the panic of such a send is never raised.
C26_NoSendOnClosedPipe ==
  [][\A k \in Ctxs :
       IngEnqueue(k) => ~fbClosed[ctxStream[k]] /\ panic' = "none"]_vars

\* C27: once StopStream has closed healthStopChan the health monitor of
\* the stream launches no ingestor and installs no cancelFunc, and every
\* context of the stream is cancelled.
C27_NoRestartAfterStop ==
  [][\A s \in StreamObjs :
       healthStopChan[s] =>
         /\ ~HmRestart(s)
         /\ cancelFunc'[s] = cancelFunc[s]
         /\ \A k \in Ctxs : ctxStream'[k] = s => ctxDone'[k]
    ]_vars

\* C28: isRunning is true only while a transcoder child of the stream is
\* alive.
C28_RunningMeansLiveChild ==
  \A s \in Allocated :
    isRunning[s] => \E k \in Ctxs : ctxStream[k] = s /\ procAlive[k]

\* The clients StopStream's loop has dealt with.
StopDone == smClients[streamID[stopObj]] \ stopTodo

\* C29: the steps of StopStream come in order.  During the sleep the
\* context is cancelled and healthStopChan closed, with the pipe still
\* open and no client touched; during the loop over the clients the pipe
\* is closed, the stream is still registered and the clients dealt with
\* are closed, with send and connection closed; the step that removes
\* the stream from sm.streams comes with the pipe closed and every client
\* of sm.clients[streamID] closed.
C29_StopInOrder ==
  /\ [](stopPc = "sleep" =>
          /\ \E k \in Ctxs : ctxStream[k] = stopObj /\ ctxDone[k]
          /\ healthStopChan[stopObj]
          /\ ~fbClosed[stopObj]
          /\ Registered(stopObj))
  /\ [](stopPc = "clients" =>
          /\ healthStopChan[stopObj]
          /\ fbClosed[stopObj]
          /\ Registered(stopObj)
          /\ \A c \in StopDone :
               closed[c] /\ sendClosed[c] /\ connClosed[c])
  /\ [][\A c \in ClientObjs :
          StopClient(c) => fbClosed[stopObj] /\ Registered(stopObj)]_vars
  /\ [][\A s \in StreamObjs :
          Registered(s) /\ ~Registered(s)' =>
            /\ fbClosed[s]
            /\ healthStopChan[s]
            /\ \A c \in smClients[streamID[s]] :
                 closed[c] /\ sendClosed[c] /\ connClosed[c]
       ]_vars

\* StopStream has dealt with every one of several clients and is about
\* to remove the stream.
C29_Witness ==
  /\ stopPc = "clients"
  /\ stopTodo = {}
  /\ Cardinality(smClients[streamID[stopObj]]) = MaxClients

\* What a removal of a client acts on: the registries, the lock, the
\* client's closed flag and its send queue.
RemovalState == <<streams, smClients, clients, smMu, closed, send, sendClosed>>

\* C30: closed goes from false to true once and never back, client.send
\* is closed only for a client whose closed is set and never twice, and a
\* caller (RemoveClient from readPump, or StopStream's loop) that finds
\* closed set changes nothing of the removal's state: a second removal
\* leaves the state of the first.
C30_RemoveOnce ==
  /\ [](\A c \in ClientObjs : sendClosed[c] => closed[c])
  /\ [][\A c \in ClientObjs :
          /\ closed[c] => closed'[c]
          /\ sendClosed[c] => sendClosed'[c]
          /\ panic' # "close of closed channel: send"
          /\ closed[c] /\ (RpExit(c) \/ RemoveClientMark(c) \/ StopClient(c))
               => UNCHANGED RemovalState
       ]_vars

\* readPump has ended after it, or its RemoveClient, found closed set by
\* StopStream's loop: the client is still in stream.clients, which only a
\* RemoveClient that went through deletes from.
C30_Witness ==
  \E c \in ClientObjs :
    /\ rpPc[c] = "done"
    /\ closed[c]
    /\ sendClosed[c]
    /\ c \in clients[cStream[c]]

Removing(c) == rpPc[c] = "remove2"

ClientStep(c) ==
  \/ RpExit(c)
  \/ RemoveClientMark(c)
  \/ RemoveClientFinish(c)
  \/ \E ok \in BOOLEAN : WpFrame(c, ok)
  \/ WpClosed(c)
  \/ WpTick(c)

\* The transport of client c has failed: its readPump has left its loop, or
\* its connection is closed (a writePump that fails to write returns and
\* closes it).
TransportFailed(c) ==
  /\ cStream[c] # 0
  /\ rpPc[c] \in {"remove", "remove2"} \/ connClosed[c]

\* Client c is torn down: flag, queue and connection closed, and c neither
\* in sm.clients nor in the clients of a registered stream.
TornDown(c) ==
  /\ closed[c] /\ sendClosed[c] /\ connClosed[c]
  /\ c \notin smClients[streamID[cStream[c]]]
  /\ c \notin clients[cStream[c]] \/ ~Registered(cStream[c])

\* What belongs to client d.
ClientView(d) ==
  <<closed[d], send[d], sendClosed[d], connClosed[d], rpPc[d], wpPc[d],
    lastWritten[d], d \in clients[cStream[d]],
    d \in smClients[streamID[cStream[d]]]>>

\* C32: a client whose transport has failed is torn down in the end (or
\* the process has ended in a panic), and no step of its pumps or of its
\* RemoveClient changes anything of another client.
C32_FailedClientTornDown ==
  /\ \A c \in LiveClients : TransportFailed(c) ~> (TornDown(c) \/ ~Up)
  /\ [][\A c, d \in ClientObjs :
          c # d /\ cStream[d] # 0 /\ ClientStep(c)
            => ClientView(d)' = ClientView(d)]_vars

\* One client is torn down by its own RemoveClient while another client of
\* the same registered stream is attached, open, and has been sent a frame.
C32_Witness ==
  \E c, d \in ClientObjs :
    /\ cStream[c] # 0
    /\ cStream[d] = cStream[c]
    /\ TornDown(c)
    /\ c \notin clients[cStream[c]]
    /\ Registered(cStream[d])
    /\ d \in clients[cStream[d]]
    /\ ~closed[d] /\ ~connClosed[d]
    /\ lastWritten[d] # 0

\* C33: under a context whose cancel has fired no child is spawned and no
\* frame is queued.
C33_NothingAfterCancel ==
  [][\A k \in Ctxs :
       ctxDone[k] => /\ procAlive'[k] => procAlive[k]
                     /\ ~Yields(k)
    ]_vars

\* C34: distributeFrames returns only with the pipe closed and drained,
\* every queued frame received; and once StopStream has begun, it returns
\* in the end (or the process has ended in a panic).
C34_BroadcasterEnds ==
  /\ [](\A s \in StreamObjs :
          bcPc[s] = "done" =>
            /\ fbClosed[s]
            /\ frameBuffer[s] = <<>>
            /\ Len(received[s]) = enqueued[s])
  /\ \A s \in StreamObjs :
       (stopObj = s /\ bcPc[s] # "none") ~> (bcPc[s] = "done" \/ ~Up)

\* The broadcaster has returned after it received every frame of the run
\* and passed one on to a client.
C34_Witness ==
  \E s \in StreamObjs :
    /\ bcPc[s] = "done"
    /\ Len(received[s]) = MaxFrames
    /\ \E c \in clients[s] : send[c] # <<>>

\* ------------------------------------------------------- Lock discipline
\* Number of operations that run side by side in one run.
MaxOps == 3

\* The order of the mutexes: the registry's, then a stream's two, then a
\* client's.
Rank(l) ==
  CASE l = "sm.mu" -> 1
    [] l = "stream.mu" -> 2
    [] l = "stream.clientsMu" -> 2
    [] OTHER -> 3

\* One call on a mutex.
LockCall(op, l) == [op |-> op, l |-> l]

\* mu.Lock() ... mu.Unlock() around a block that takes the locks in body.
Locked(l, body) ==
  <<LockCall("Lock", l)>> \o body \o <<LockCall("Unlock", l)>>

\* mu.RLock() ... mu.RUnlock() around a block that takes the locks in body.
RLocked(l, body) ==
  <<LockCall("RLock", l)>> \o body \o <<LockCall("RUnlock", l)>>

\* StartStream: sm.mu for the whole call.
LocksStartStream == Locked("sm.mu", <<>>)

\* startFFmpeg: stream.mu around isRunning = true, around the frame
\* bookkeeping, and around isRunning = false.
LocksStartFFmpeg ==
  Locked("stream.mu", <<>>) \o Locked("stream.mu", <<>>)
    \o Locked("stream.mu", <<>>)

\* distributeFrames: the snapshot under clientsMu, then each client under
\* its own mu.
LocksDistributeFrames ==
  RLocked("stream.clientsMu", <<>>) \o Locked("client.mu", <<>>)

\* StopStream with the mutex of a client taken before the registry's.
LocksStopStreamClientFirst == Locked("client.mu", Locked("sm.mu", <<>>))

\* StopStream: sm.mu for the whole call, each client's mu inside it.
LocksStopStream == Locked("sm.mu", Locked("client.mu", <<>>))

\* AddClient: sm.mu for the whole call, clientsMu inside it.
LocksAddClient == Locked("sm.mu", Locked("stream.clientsMu", <<>>))

\* RemoveClient: sm.mu for the whole call; inside it the client's mu, and
\* after its release the stream's clientsMu.
LocksRemoveClient ==
  Locked("sm.mu",
         Locked("client.mu", <<>>) \o Locked("stream.clientsMu", <<>>))

\* GetStreamStats: sm.mu read-locked for the whole call, stream.mu
\* read-locked inside it.
LocksGetStreamStats == RLocked("sm.mu", RLocked("stream.mu", <<>>))

\* handleStartStreamWithURL: the scan of the registry under sm.mu, released
\* before StartStream.
LocksHandleStartStreamWithURL == RLocked("sm.mu", <<>>) \o LocksStartStream

\* handleStopStream: the client count under sm.mu and clientsMu, both
\* released before StopStream.
LocksHandleStopStream ==
  RLocked("sm.mu", RLocked("stream.clientsMu", <<>>)) \o LocksStopStream

\* handleWebSocket: the lookup under sm.mu, the isRunning read under
\* stream.mu, then AddClient.
LocksHandleWebSocket ==
  RLocked("sm.mu", <<>>) \o RLocked("stream.mu", <<>>) \o LocksAddClient

\* handleListStreams: sm.mu read-locked for the whole loop, each stream's
\* mu read-locked inside it.
LocksHandleListStreams == RLocked("sm.mu", RLocked("stream.mu", <<>>))

\* handleGetFrame: the lookup under sm.mu, then the isRunning read under
\* stream.mu.
LocksHandleGetFrame == RLocked("sm.mu", <<>>) \o RLocked("stream.mu", <<>>)

\* monitorStreamHealth: the reads under stream.mu, then isRunning = false
\* under stream.mu.
LocksMonitorStreamHealth ==
  RLocked("stream.mu", <<>>) \o Locked("stream.mu", <<>>)

\* readPump: closed = true under the client's mu in the deferred function,
\* then RemoveClient.
LocksReadPump == Locked("client.mu", <<>>) \o LocksRemoveClient

\* writePump: the closed test under the client's mu.
LocksWritePump == Locked("client.mu", <<>>)

\* The lock calls of an operation, in the order in which it makes them.
LockProgram(o) ==
  CASE o = "StartStream" -> LocksStartStream
    [] o = "startFFmpeg" -> LocksStartFFmpeg
    [] o = "distributeFrames" -> LocksDistributeFrames
    [] o = "StopStream" -> LocksStopStream
    [] o = "handleStartStreamWithURL" -> LocksHandleStartStreamWithURL
    [] o = "handleStopStream" -> LocksHandleStopStream
    [] o = "handleWebSocket" -> LocksHandleWebSocket
    [] o = "GetStreamStats" -> LocksGetStreamStats
    [] o = "handleListStreams" -> LocksHandleListStreams
    [] o = "handleGetFrame" -> LocksHandleGetFrame
    [] o = "monitorStreamHealth" -> LocksMonitorStreamHealth
    [] o = "readPump" -> LocksReadPump
    [] OTHER -> LocksWritePump

\* Operation o is between its first and its last lock call.
Running(o) == lk.pc[o] \in 1..Len(LockProgram(o))

\* The next lock call of a running operation.
Instr(o) == LockProgram(o)[lk.pc[o]]

\* The mutexes operation o holds, for reading or for writing.
HeldBy(o) == {l \in Locks : \E m \in {"R", "W"} : <<o, m>> \in lk.held[l]}

\* Lock() first announces the writer, which turns new readers away.
CanArrive(o) ==
  /\ Running(o)
  /\ Instr(o).op = "Lock"
  /\ o \notin lk.wait[Instr(o).l]

\* Lock() returns once the mutex has no holder.
CanLock(o) ==
  /\ Running(o)
  /\ Instr(o).op = "Lock"
  /\ o \in lk.wait[Instr(o).l]
  /\ lk.held[Instr(o).l] = {}

\* RLock() returns when no writer holds the mutex and none waits for it.
CanRLock(o) ==
  /\ Running(o)
  /\ Instr(o).op = "RLock"
  /\ lk.wait[Instr(o).l] = {}
  /\ \A h \in lk.held[Instr(o).l] : h[2] = "R"

\* Unlock() and RUnlock() never wait.
CanUnlock(o) ==
  /\ Running(o)
  /\ Instr(o).op \in {"Unlock", "RUnlock"}

\* Unlock() gives up a write lock, RUnlock() a read lock.
HeldAs(o) == IF Instr(o).op = "Unlock" THEN "W" ELSE "R"

\* The state of the program outside the mutexes.
coreVars ==
  <<smVars, streamVars, ingVars, bcVars, hmPc, clientVars, stopVars,
    wsPending, safePending, mainPc, now, panic>>

LkArrive(o) ==
  /\ Up
  /\ CanArrive(o)
  /\ lk' = [lk EXCEPT !.wait[Instr(o).l] = @ \cup {o}]
  /\ UNCHANGED coreVars

LkLock(o) ==
  /\ Up
  /\ CanLock(o)
  /\ lk' = [lk EXCEPT !.wait[Instr(o).l] = @ \ {o},
                      !.held[Instr(o).l] = {<<o, "W">>},
                      !.pc[o] = @ + 1]
  /\ UNCHANGED coreVars

LkRLock(o) ==
  /\ Up
  /\ CanRLock(o)
  /\ lk' = [lk EXCEPT !.held[Instr(o).l] = @ \cup {<<o, "R">>},
                      !.pc[o] = @ + 1]
  /\ UNCHANGED coreVars

LkUnlock(o) ==
  /\ Up
  /\ CanUnlock(o)
  /\ lk' = [lk EXCEPT !.held[Instr(o).l] = @ \ {<<o, HeldAs(o)>>},
                      !.pc[o] = @ + 1]
  /\ UNCHANGED coreVars

\* MaxOps of the operations run side by side, each from its first lock
\* call.
InitLocks ==
  /\ InitCore
  /\ lim = Limits(MaxStreams, MaxStreams, Few, Few, HealthCheckInterval)
  /\ \E S \in SUBSET Operations :
       /\ Cardinality(S) = MaxOps
       /\ lk = [NoLocks EXCEPT !.pc = [o \in Operations |->
                                         IF o \in S THEN 1 ELSE 0]]

NextLocks ==
  \/ \E o \in Operations : LkArrive(o)
  \/ \E o \in Operations : LkLock(o)
  \/ \E o \in Operations : LkRLock(o)
  \/ \E o \in Operations : LkUnlock(o)

SpecLocks == InitLocks /\ [][NextLocks]_vars

\* Some running operation can make its next lock call.
SomeCanStep ==
  \E o \in Operations :
    CanArrive(o) \/ CanLock(o) \/ CanRLock(o) \/ CanUnlock(o)

C36_SingleWriter ==
  \A s \in StreamObjs :
    /\ FramesInHand(s) <= 1
    /\ \A k \in Ctxs :
         ctxStream[k] = s /\ ingPc[k] = "send" /\ ~fbClosed[s] =>
           Len(frameBuffer[s]) < FrameBufferSize


\* What may become of a client's send queue without a frame being queued:
\* nothing, or writePump takes its first frame.
NoFrameQueued(c) ==
  \/ send'[c] = send[c]
  \/ send[c] # <<>> /\ send'[c] = Tail(send[c])

\* C37: distributeFrames never sends on a client queue that was closed
\* (the panic of such a send is unreachable), and once a client's closed
\* flag is true no frame is queued for it.
C37_NoSendAfterClose ==
  /\ [](panic # "send on closed channel: send")
  /\ [][\A c \in ClientObjs : closed[c] => NoFrameQueued(c)]_vars

\* The broadcaster, with a frame in hand that it has queued for one client,
\* comes to a client of its snapshot whose closed flag RemoveClient has set
\* and whose queue is still open.
C37_Witness ==
  \E s \in StreamObjs, c, d \in ClientObjs :
    /\ bcPc[s] = "send"
    /\ c \in bcTodo[s]
    /\ closed[c] /\ ~sendClosed[c]
    /\ d # c /\ d \notin bcTodo[s]
    /\ send[d] # <<>> /\ send[d][Len(send[d])] = bcFrame[s]


\* The ids under which client c is in the clients map of a registered
\* stream.
HomesOf(c) == {id \in Ids : streams[id] # 0 /\ c \in clients[streams[id]]}

\* C38: while sm.mu is free, sm.clients[id] and the clients map of the
\* stream registered under id hold the same clients, each of them with
\* closed = false and an open send queue, and every client that exists and
\* has closed = false is in the clients map of exactly one registered
\* stream; and a step that creates a client puts it into the clients map of
\* a stream that is registered after the step.
C38_MirrorAgrees ==
  /\ [](smMu = "free" =>
          /\ \A id \in Ids :
               streams[id] # 0 =>
                 /\ smClients[id] = clients[streams[id]]
                 /\ \A c \in smClients[id] : ~closed[c] /\ ~sendClosed[c]
          /\ \A c \in ClientObjs :
               cStream[c] # 0 /\ ~closed[c] => Cardinality(HomesOf(c)) = 1)
  /\ [][\A c \in ClientObjs :
          cStream[c] = 0 /\ cStream'[c] # 0 =>
            /\ streamID'[cStream'[c]] # "none"
            /\ streams'[streamID'[cStream'[c]]] = cStream'[c]
            /\ c \in clients'[cStream'[c]]]_vars

\* sm.mu is free, a client is attached to the registered stream and
\* another, removed by RemoveClient, is in neither map.
C38_Witness ==
  \E id \in Ids, c \in ClientObjs :
    /\ smMu = "free"
    /\ streams[id] # 0
    /\ smClients[id] # {}
    /\ cStream[c] = streams[id]
    /\ closed[c] /\ sendClosed[c]
    /\ c \notin clients[streams[id]]


\* C39: a tick that finds isRunning true and lastFrameTime still zero takes
\* the restart branch (the monitor restarts only a running, stalled
\* stream); the restart cancels the current context, launches a new
\* runFFmpegStream and leaves lastFrameTime as it was; and a stall ends
\* only when a goroutine queues a frame it has read, so a restarted stream
\* for which no frame was read is restarted again at the next tick that
\* finds it running.
C39_ZeroTimeIsStalled ==
  /\ [](\A s \in StreamObjs :
          /\ hmPc[s] = "wait"
          /\ isRunning[s]
          /\ lastFrameTime[s] = 0
          /\ nCtx < lim.ctx
          => ENABLED HmTick(s))
  /\ [][\A s \in StreamObjs :
          hmPc[s] = "wait" /\ hmPc'[s] = "restart" =>
            isRunning[s] /\ Stalled(s)]_vars
  /\ [][\A s \in StreamObjs :
          hmPc[s] = "restart" /\ hmPc'[s] = "wait" =>
            /\ ctxDone'[cancelFunc[s]]
            /\ cancelFunc'[s] # cancelFunc[s]
            /\ ingPc'[cancelFunc'[s]] = "loop"
            /\ lastFrameTime'[s] = lastFrameTime[s]]_vars
  /\ [][\A s \in StreamObjs :
          streamID[s] # "none" /\ Stalled(s) /\ ~Stalled(s)' =>
            \E k \in Ctxs :
              /\ ctxStream[k] = s
              /\ ingPc[k] \in Holding
              /\ ingPc'[k] \notin Holding]_vars

\* A stream for which no frame was ever read has been restarted twice: the
\* second restart cancelled the goroutine that the first one launched.
C39_Witness ==
  \E s \in StreamObjs :
    /\ hmPc[s] = "wait"
    /\ lastFrameTime[s] = 0
    /\ enqueued[s] = 0
    /\ FramesInHand(s) = 0
    /\ cancelFunc[s] = MaxCtx + Few
    /\ \A k \in 1..MaxCtx : ctxStream[k] = s /\ ctxDone[k]


\* ------------------------------------------- a stream stopped and started
\* One id that is started, force-stopped and started again, with a client
\* attached and a health monitor that can restart the transcoder once.  The
\* transcoder starts whenever it is launched and lives until its goroutine
\* kills it, so a goroutine left over from the stopped stream reads frames
\* for as long as it runs.
InitAgain ==
  /\ InitState
  /\ lim = Limits(MaxUrlStreams, MaxCtx + Few, Few, Few, HealthCheckInterval)

NextAgain ==
  \/ \E id \in StreamIds, r \in Statuses : StartStream(id, r)
  \/ \E k \in Ctxs : IngLoop(k, TRUE)
  \/ \E k \in Ctxs : IngReadFrame(k)
  \/ \E k \in Ctxs : IngEnqueue(k)
  \/ \E s \in StreamObjs : BcRecv(s)
  \/ \E s \in StreamObjs : BcEnd(s)
  \/ \E s \in StreamObjs : BcSnapshot(s)
  \/ \E s \in StreamObjs, c \in ClientObjs : BcSend(s, c)
  \/ \E s \in StreamObjs : HmStop(s)
  \/ \E s \in StreamObjs : HmTick(s)
  \/ \E s \in StreamObjs : HmRestart(s)
  \/ \E id \in StreamIds, r \in Statuses : WsCheck(id, r)
  \/ \E id \in StreamIds, r \in Statuses : AddClient(id, r)
  \/ \E c \in ClientObjs : RpExit(c)
  \/ \E c \in ClientObjs : RemoveClientMark(c)
  \/ \E c \in ClientObjs : RemoveClientFinish(c)
  \/ \E id \in StreamIds, r \in Statuses : StopStream(id, "force", r)
  \/ StopClosePipe
  \/ \E c \in ClientObjs : StopClient(c)
  \/ StopDelete

SpecAgain == InitAgain /\ [][NextAgain]_vars


\* Stream new is registered under the id that stream old had.
StartedAgain(old, new) ==
  /\ old # new
  /\ streamID[old] # "none"
  /\ streamID[old] = streamID[new]
  /\ Registered(new)

\* A step of a goroutine of stream s: its runFFmpegStream goroutines, its
\* distributeFrames, its monitorStreamHealth, or the readPump of one of its
\* clients.
TaskStep(s) ==
  \/ \E k \in Ctxs :
       /\ ctxStream[k] = s
       /\ IngLoop(k, TRUE) \/ IngReadFrame(k) \/ IngEnqueue(k)
  \/ BcRecv(s) \/ BcEnd(s) \/ BcSnapshot(s)
  \/ \E c \in ClientObjs : BcSend(s, c)
  \/ HmStop(s) \/ HmTick(s) \/ HmRestart(s)
  \/ \E c \in ClientObjs :
       /\ cStream[c] = s
       /\ RpExit(c) \/ RemoveClientMark(c) \/ RemoveClientFinish(c)

\* The Stream that StartStream has just made: no frame counted, the zero
\* lastFrameTime, no client, an empty open frameBuffer, isRunning false.
Fresh(s) ==
  /\ frameCount[s] = 0
  /\ lastFrameTime[s] = 0
  /\ clients[s] = {}
  /\ smClients[streamID[s]] = {}
  /\ frameBuffer[s] = <<>>
  /\ ~fbClosed[s]
  /\ ~isRunning[s]
  /\ ~healthStopChan[s]

\* C40: once StopStream(id) has returned, StartStream(id) answers 200 and
\* registers a Stream that no earlier call has used, with frameCount 0, the
\* zero lastFrameTime, no clients and a new empty frameBuffer; and no step
\* of a goroutine of the stopped stream changes anything of the new one.
C40_FreshAfterStop ==
  /\ [][\A id \in StreamIds, r \in Statuses :
          /\ StartStream(id, r)
          /\ streams[id] = 0
          /\ \E old \in StreamObjs : streamID[old] = id
          => /\ r = 200
             /\ \E s \in StreamObjs :
                  /\ streams'[id] = s
                  /\ streamID[s] = "none"
                  /\ Fresh(s)']_vars
  /\ [][\A old, new \in StreamObjs :
          StartedAgain(old, new) /\ TaskStep(old) =>
            StreamView(new)' = StreamView(new)]_vars

\* The id is registered again with a client attached to the new stream and
\* a frame counted for it, while the monitor of the stopped stream has
\* launched, after the new start, a goroutine that is reading from its
\* transcoder.
C40_Witness ==
  \E old, new \in StreamObjs, k \in Ctxs :
    /\ StartedAgain(old, new)
    /\ frameCount[new] > 0
    /\ clients[new] # {}
    /\ ctxStream[k] = old
    /\ k > cancelFunc[new]
    /\ ingPc[k] = "read"

====
